---------------------------- MODULE Spec2Model ----------------------------
(***************************************************************************)
(* Guard perception and awareness of the Hunter Assassin stealth game:     *)
(* DetectionLevel and GuardStateMachine (guard_states.py), the vision      *)
(* check of a guard (entities.py, utils.py).                               *)
(*                                                                         *)
(* Units.  Time is counted in hundredths of a second, so the source's      *)
(* 0.3 s, 2.0 s, 3.0 s and 6.0 s are 30, 200, 300 and 600.  A detection    *)
(* value v in [0,1] of a DetectionLevel with threshold th is held as the   *)
(* integer v * th (the seen time it stands for), so that                   *)
(* value + dt / th is value + dt and 1.0 is th: the arithmetic is that of  *)
(* the source over the rationals, without the rounding of binary floats.   *)
(* Angles are counted in hundredths of a degree.  Lengths are counted in    *)
(* half pixels, and speeds and speed multipliers in halves (a guard moves   *)
(* 1 or 1.5 pixels a tick), so that the product of a speed and a           *)
(* multiplier is halved.  The path costs 1.0 and 1.4 are counted in tenths. *)
(***************************************************************************)
EXTENDS Integers, Sequences, FiniteSets, TLC

VARIABLES
    detection,      \* a DetectionLevel used on its own
    gsm,            \* a GuardStateMachine
    last,           \* the state before, and the arguments of, the last gsm update
    seen_time,      \* time the target was seen by gsm on every update since construction
    unseen_time,    \* time of the consecutive updates since gsm last saw the target
    enemy,          \* an Enemy (a guard)
    player,         \* the Player the guard looks for
    obstacles,      \* the list of Obstacles of the level
    bullet,         \* what the last update_ai of enemy returned
    env,            \* a HunterAssassinEnv, None where no environment runs
    ticks,          \* what the update_ai ticks of enemy were like, see NoTicks
    loop,           \* the locals of a find_path run one round of its while loop at a
                    \* time, None where find_path runs in one piece
    called,         \* the method or function that ran last, "" before any
    args,           \* the arguments of the last call of a function of utils.py or
                    \* pathfinding.py made on its own, None before any
    returned        \* what that call returned

vars == <<detection, gsm, last, seen_time, unseen_time,
          enemy, player, obstacles, bullet, env, ticks, loop, called, args, returned>>

\* the variables of the GuardStateMachine
gsm_vars == <<gsm, last, seen_time, unseen_time>>

\* the variables of the Enemy and of the level it lives in
enemy_vars == <<enemy, player, obstacles, bullet, called>>

\* the variables of a function called on its own
call_vars == <<args, returned>>

\* ------------------------------------------------------------ helpers

Min(a, b) == IF a <= b THEN a ELSE b

Max(a, b) == IF a >= b THEN a ELSE b

\* abs
Abs(a) == IF a >= 0 THEN a ELSE -a

\* Python's None
None == <<>>

\* ------------------------------------------------------------ guard_states.py

PATROL == "patrol"

SUSPICIOUS == "suspicious"

ALERTED == "alerted"

SEARCHING == "searching"

GuardState == {PATROL, SUSPICIOUS, ALERTED, SEARCHING}

\* detection_threshold = 0.3 (seconds to full detection)
detection_threshold == 30

\* decay_rate = 2.0
decay_rate == 2

\* suspicious_duration = 2.0
suspicious_duration == 200

\* search_duration = 6.0
search_duration == 600

\* lost_sight_delay = 3.0
lost_sight_delay == 300

\* DetectionLevel.__init__
DetectionLevel(threshold) ==
    [value |-> 0, threshold |-> threshold]

\* update_seeing without the upper clamp
update_seeing_unclamped(d, delta_time, can_see) ==
    IF can_see
    THEN [d EXCEPT !.value = d.value + delta_time]
    ELSE [d EXCEPT !.value = Max(0, d.value - delta_time * decay_rate)]

\* update_seeing that keeps the value while the target is not seen
update_seeing_no_decay(d, delta_time, can_see) ==
    IF can_see
    THEN [d EXCEPT !.value = Min(d.threshold, d.value + delta_time)]
    ELSE d

\* DetectionLevel.update_seeing: min(1.0, value + dt / threshold) when seen,
\* max(0.0, value - dt * decay_rate / threshold) otherwise
update_seeing(d, delta_time, can_see) ==
    IF can_see
    THEN [d EXCEPT !.value = Min(d.threshold, d.value + delta_time)]
    ELSE [d EXCEPT !.value = Max(0, d.value - delta_time * decay_rate)]

\* is_suspicious without its upper limit: 0.2 <= value
is_suspicious_open(d) ==
    2 * d.threshold <= 10 * d.value

\* DetectionLevel.is_suspicious: 0.2 <= value < 0.5
is_suspicious(d) ==
    2 * d.threshold <= 10 * d.value /\ 10 * d.value < 5 * d.threshold

\* DetectionLevel.is_alerted: value >= 1.0
is_alerted(d) ==
    d.value >= d.threshold

\* DetectionLevel.reset
reset(d) ==
    [d EXCEPT !.value = 0]

\* GuardStateMachine.__init__
GuardStateMachine(threshold) ==
    [state |-> PATROL,
     detection |-> DetectionLevel(threshold),
     suspicious_timer |-> 0,
     search_timer |-> 0,
     lost_sight_timer |-> 0,
     last_known_position |-> None,
     investigation_pos |-> None]

\* _update_patrol with the band of is_suspicious closed at 0.5
update_patrol_closed_band(sm, delta_time, can_see_player, player_pos) ==
    IF 2 * sm.detection.threshold <= 10 * sm.detection.value
       /\ 10 * sm.detection.value <= 5 * sm.detection.threshold
    THEN [sm EXCEPT !.state = SUSPICIOUS,
                    !.suspicious_timer = 0,
                    !.investigation_pos = player_pos]
    ELSE IF is_alerted(sm.detection)
    THEN [sm EXCEPT !.state = ALERTED]
    ELSE sm

\* GuardStateMachine._update_patrol
update_patrol(sm, delta_time, can_see_player, player_pos) ==
    IF is_suspicious(sm.detection)
    THEN [sm EXCEPT !.state = SUSPICIOUS,
                    !.suspicious_timer = 0,
                    !.investigation_pos = player_pos]
    ELSE IF is_alerted(sm.detection)
    THEN [sm EXCEPT !.state = ALERTED]
    ELSE sm

\* _update_suspicious timing out whether or not the target is visible
update_suspicious_timeout_seen(sm, delta_time, can_see_player) ==
    LET s1 == [sm EXCEPT !.suspicious_timer = @ + delta_time]
    IN  IF is_alerted(s1.detection)
        THEN [s1 EXCEPT !.state = ALERTED, !.suspicious_timer = 0]
        ELSE IF s1.suspicious_timer >= suspicious_duration
        THEN [s1 EXCEPT !.state = PATROL,
                        !.detection = reset(s1.detection),
                        !.suspicious_timer = 0,
                        !.investigation_pos = None]
        ELSE s1

\* _update_suspicious leaving the timer as it is when the guard is alerted
update_suspicious_keeps_timer(sm, delta_time, can_see_player) ==
    LET s1 == [sm EXCEPT !.suspicious_timer = @ + delta_time]
    IN  IF is_alerted(s1.detection)
        THEN [s1 EXCEPT !.state = ALERTED]
        ELSE IF s1.suspicious_timer >= suspicious_duration /\ ~can_see_player
        THEN [s1 EXCEPT !.state = PATROL,
                        !.detection = reset(s1.detection),
                        !.suspicious_timer = 0,
                        !.investigation_pos = None]
        ELSE s1

\* GuardStateMachine._update_suspicious
update_suspicious(sm, delta_time, can_see_player) ==
    LET s1 == [sm EXCEPT !.suspicious_timer = @ + delta_time]
    IN  IF is_alerted(s1.detection)
        THEN [s1 EXCEPT !.state = ALERTED, !.suspicious_timer = 0]
        ELSE IF s1.suspicious_timer >= suspicious_duration /\ ~can_see_player
        THEN [s1 EXCEPT !.state = PATROL,
                        !.detection = reset(s1.detection),
                        !.suspicious_timer = 0,
                        !.investigation_pos = None]
        ELSE s1

\* _update_alerted leaving only once the delay is exceeded
update_alerted_strict(sm, delta_time, can_see_player) ==
    LET s1 == IF ~can_see_player /\ sm.lost_sight_timer > lost_sight_delay
              THEN [sm EXCEPT !.state = SEARCHING, !.search_timer = 0]
              ELSE sm
    IN  IF can_see_player
        THEN [s1 EXCEPT !.lost_sight_timer = 0]
        ELSE s1

\* _update_alerted giving the chase up without a search
update_alerted_gives_up(sm, delta_time, can_see_player) ==
    LET s1 == IF ~can_see_player /\ sm.lost_sight_timer >= lost_sight_delay
              THEN [sm EXCEPT !.state = PATROL, !.detection = reset(sm.detection)]
              ELSE sm
    IN  IF can_see_player
        THEN [s1 EXCEPT !.lost_sight_timer = 0]
        ELSE s1

\* GuardStateMachine._update_alerted
update_alerted(sm, delta_time, can_see_player) ==
    LET s1 == IF ~can_see_player /\ sm.lost_sight_timer >= lost_sight_delay
              THEN [sm EXCEPT !.state = SEARCHING, !.search_timer = 0]
              ELSE sm
    IN  IF can_see_player
        THEN [s1 EXCEPT !.lost_sight_timer = 0]
        ELSE s1

\* _update_searching testing the timeout before the re-acquisition
update_searching_timeout_first(sm, delta_time, can_see_player, guard_pos) ==
    LET s1 == [sm EXCEPT !.search_timer = @ + delta_time]
    IN  IF s1.search_timer >= search_duration
        THEN [s1 EXCEPT !.state = PATROL,
                        !.detection = reset(s1.detection),
                        !.search_timer = 0,
                        !.last_known_position = None]
        ELSE IF is_alerted(s1.detection)
        THEN [s1 EXCEPT !.state = ALERTED, !.search_timer = 0]
        ELSE s1

\* GuardStateMachine._update_searching
update_searching(sm, delta_time, can_see_player, guard_pos) ==
    LET s1 == [sm EXCEPT !.search_timer = @ + delta_time]
    IN  IF is_alerted(s1.detection)
        THEN [s1 EXCEPT !.state = ALERTED, !.search_timer = 0]
        ELSE IF s1.search_timer >= search_duration
        THEN [s1 EXCEPT !.state = PATROL,
                        !.detection = reset(s1.detection),
                        !.search_timer = 0,
                        !.last_known_position = None]
        ELSE s1

\* update keeping last_known_position only while the guard is alerted
update_track_alerted_only(sm, delta_time, can_see_player, player_pos, guard_pos) ==
    LET s1 == [sm EXCEPT
                 !.detection = update_seeing(@, delta_time, can_see_player),
                 !.last_known_position =
                     IF can_see_player /\ sm.state = ALERTED THEN player_pos ELSE @,
                 !.lost_sight_timer = IF can_see_player THEN 0 ELSE @ + delta_time]
    IN  CASE s1.state = PATROL -> update_patrol(s1, delta_time, can_see_player, player_pos)
          [] s1.state = SUSPICIOUS -> update_suspicious(s1, delta_time, can_see_player)
          [] s1.state = ALERTED -> update_alerted(s1, delta_time, can_see_player)
          [] s1.state = SEARCHING -> update_searching(s1, delta_time, can_see_player, guard_pos)

\* update ending a search as soon as the guard stands on the last known position
update_arrival(sm, delta_time, can_see_player, player_pos, guard_pos) ==
    LET s1 == [sm EXCEPT
                 !.detection = update_seeing(@, delta_time, can_see_player),
                 !.last_known_position = IF can_see_player THEN player_pos ELSE @,
                 !.lost_sight_timer = IF can_see_player THEN 0 ELSE @ + delta_time]
    IN  CASE s1.state = PATROL -> update_patrol(s1, delta_time, can_see_player, player_pos)
          [] s1.state = SUSPICIOUS -> update_suspicious(s1, delta_time, can_see_player)
          [] s1.state = ALERTED -> update_alerted(s1, delta_time, can_see_player)
          [] s1.state = SEARCHING ->
                IF guard_pos = s1.last_known_position
                THEN [s1 EXCEPT !.state = PATROL,
                                !.detection = reset(s1.detection),
                                !.search_timer = 0,
                                !.last_known_position = None]
                ELSE update_searching(s1, delta_time, can_see_player, guard_pos)

\* GuardStateMachine.update
update(sm, delta_time, can_see_player, player_pos, guard_pos) ==
    LET s1 == [sm EXCEPT
                 !.detection = update_seeing(@, delta_time, can_see_player),
                 !.last_known_position = IF can_see_player THEN player_pos ELSE @,
                 !.lost_sight_timer = IF can_see_player THEN 0 ELSE @ + delta_time]
    IN  CASE s1.state = PATROL -> update_patrol(s1, delta_time, can_see_player, player_pos)
          [] s1.state = SUSPICIOUS -> update_suspicious(s1, delta_time, can_see_player)
          [] s1.state = ALERTED -> update_alerted(s1, delta_time, can_see_player)
          [] s1.state = SEARCHING -> update_searching(s1, delta_time, can_see_player, guard_pos)

\* GuardStateMachine.get_target_position
get_target_position(sm) ==
    IF sm.state = SUSPICIOUS /\ sm.investigation_pos # None
    THEN sm.investigation_pos
    ELSE IF sm.state = SEARCHING /\ sm.last_known_position # None
    THEN sm.last_known_position
    ELSE None

\* GuardStateMachine.should_chase
should_chase(sm) ==
    sm.state = ALERTED

\* ------------------------------------------------------------ config.py

\* TILE_SIZE = 64 pixels
TILE_SIZE == 64 * 2

\* SCREEN_WIDTH = TILE_SIZE * MAP_TILES_WIDTH
SCREEN_WIDTH == TILE_SIZE * 16

\* SCREEN_HEIGHT = TILE_SIZE * MAP_TILES_HEIGHT
SCREEN_HEIGHT == TILE_SIZE * 16

\* PLAYER_MELEE_RANGE = 40 pixels
PLAYER_MELEE_RANGE == 40 * 2

\* GUARD_MOVEMENT_SPEED = 1.0
GUARD_MOVEMENT_SPEED == 2

\* PLAYER_SIZE = 20 pixels
PLAYER_SIZE == 20 * 2

\* PLAYER_MOVEMENT_SPEED = 2.5 pixels a step
PLAYER_MOVEMENT_SPEED == 5

\* BULLET_SPEED = 8.0 pixels a step
BULLET_SPEED == 8 * 2

\* BULLET_SIZE = 4 pixels
BULLET_SIZE == 4 * 2

\* BULLET_LIFETIME = 120 steps
BULLET_LIFETIME == 120

\* MAX_STEPS_PER_EPISODE = 2000
MAX_STEPS_PER_EPISODE == 2000

\* GUARD_SIZE = 20 pixels
GUARD_SIZE == 20 * 2

\* GUARD_VISION_RANGE = TILE_SIZE * 8
GUARD_VISION_RANGE == TILE_SIZE * 8

\* GUARD_VISION_ANGLE = 60 degrees
GUARD_VISION_ANGLE == 60 * 100

\* GUARD_CHASE_SPEED = 1.5
GUARD_CHASE_SPEED == 3

\* GUARD_PATROL_PAUSE_TIME = 60 frames
GUARD_PATROL_PAUSE_TIME == 60

\* ENEMY_SHOOT_COOLDOWN = 60 frames
ENEMY_SHOOT_COOLDOWN == 60

\* ENEMY_SHOOT_DELAY = 30 frames
ENEMY_SHOOT_DELAY == 30

\* ------------------------------------------------------------ utils.py

\* get_distance is a square root; the model holds its square, and compares a
\* distance with a non-negative length by comparing the squares
get_distance_squared(x1, y1, x2, y2) ==
    (x2 - x1) * (x2 - x1) + (y2 - y1) * (y2 - y1)

\* math.degrees(math.atan2(y, x)) of the direction vectors the levels below
\* give rise to that lie off the axes and the diagonals, rounded to 0.01 degree
Atan2Table ==
    (<<10, 50>> :> 1131) @@ (<<80, 50>> :> 5799) @@
    (<<50, 87>> :> 2989) @@ (<<50, 86>> :> 3017) @@
    (<<20, 40>> :> 2657) @@ (<<90, 40>> :> 6604) @@
    (<<10, 90>> :> 634) @@ (<<10, 91>> :> 627) @@
    (<<60, 40>> :> 5631) @@ (<<10, -60>> :> 17054) @@
    (<<60, 77>> :> 3793) @@ (<<60, 76>> :> 3829) @@
    (<<-100, -5729>> :> -17900) @@ (<<-90, -5739>> :> -17910)

\* math.degrees(math.atan2(y, x)), in (-180, 180]: exact on the axes and the
\* diagonals (atan2(0, 0) is 0), from the table elsewhere
Atan2(y, x) ==
    IF y = 0 THEN (IF x >= 0 THEN 0 ELSE 18000)
    ELSE IF x = 0 THEN (IF y > 0 THEN 9000 ELSE -9000)
    ELSE IF x = y THEN (IF x > 0 THEN 4500 ELSE -13500)
    ELSE IF x = -y THEN (IF x > 0 THEN -4500 ELSE 13500)
    ELSE Atan2Table[<<y, x>>]

\* math.cos(math.radians(angle)), for the multiples of 90 degrees
Cos(angle) ==
    CASE angle % 36000 = 0 -> 1
      [] angle % 36000 = 9000 -> 0
      [] angle % 36000 = 18000 -> -1
      [] angle % 36000 = 27000 -> 0

\* math.sin(math.radians(angle)), for the multiples of 90 degrees
Sin(angle) ==
    CASE angle % 36000 = 0 -> 0
      [] angle % 36000 = 9000 -> 1
      [] angle % 36000 = 18000 -> 0
      [] angle % 36000 = 27000 -> -1

\* get_angle_to_point
get_angle_to_point(from_x, from_y, to_x, to_y) ==
    Atan2(to_y - from_y, to_x - from_x)

RECURSIVE while_above_180(_)
\* angle_difference: while diff > 180: diff -= 360
while_above_180(diff) ==
    IF diff > 18000 THEN while_above_180(diff - 36000) ELSE diff

RECURSIVE while_below_minus_180(_)
\* angle_difference: while diff < -180: diff += 360
while_below_minus_180(diff) ==
    IF diff < -18000 THEN while_below_minus_180(diff + 36000) ELSE diff

\* angle_difference without its two while loops
angle_difference_unwrapped(angle1, angle2) ==
    angle2 - angle1

\* angle_difference
angle_difference(angle1, angle2) ==
    while_below_minus_180(while_above_180(angle2 - angle1))

\* is_point_in_cone
is_point_in_cone(point_x, point_y, cone_x, cone_y, cone_angle, cone_fov, max_distance) ==
    IF get_distance_squared(cone_x, cone_y, point_x, point_y) > max_distance * max_distance
    THEN FALSE
    ELSE LET angle_to_point == get_angle_to_point(cone_x, cone_y, point_x, point_y)
             angle_diff == Abs(angle_difference(cone_angle, angle_to_point))
         IN  2 * angle_diff <= cone_fov

\* Obstacle.__init__: a rectangle given by its centre and its (even) sides
Obstacle(x, y, width, height) ==
    [center_x |-> x, center_y |-> y, width |-> width, height |-> height]

RECURSIVE sqrt_between(_, _, _)
\* the integer root of n, between lo and hi
sqrt_between(n, lo, hi) ==
    IF lo >= hi
    THEN lo
    ELSE IF ((lo + hi + 1) \div 2) * ((lo + hi + 1) \div 2) <= n
    THEN sqrt_between(n, (lo + hi + 1) \div 2, hi)
    ELSE sqrt_between(n, lo, (lo + hi + 1) \div 2 - 1)

\* math.sqrt, for the squares
sqrt(n) == sqrt_between(n, 0, Min(n, 46340))

\* the sprite's left edge: center_x - width / 2
left(o) == o.center_x - o.width \div 2

\* the sprite's right edge
right(o) == o.center_x + o.width \div 2

\* the sprite's bottom edge
bottom(o) == o.center_y - o.height \div 2

\* the sprite's top edge
top(o) == o.center_y + o.height \div 2

\* line_segment_intersection that takes the start of the first segment for
\* the point where parallel segments intersect
line_segment_intersection_of_parallels(x1, y1, x2, y2, x3, y3, x4, y4) ==
    LET denom == (x1 - x2) * (y3 - y4) - (y1 - y2) * (x3 - x4)
        tnum == (x1 - x3) * (y3 - y4) - (y1 - y3) * (x3 - x4)
        unum == -((x1 - x2) * (y1 - y3) - (y1 - y2) * (x1 - x3))
        sign == IF denom > 0 THEN 1 ELSE -1
        d == sign * denom
        tn == sign * tnum
        un == sign * unum
    IN  IF denom = 0
        THEN <<x1, y1, 1, 0>>
        ELSE IF 0 <= tn /\ tn <= d /\ 0 <= un /\ un <= d
        THEN <<x1 * d + tn * (x2 - x1), y1 * d + tn * (y2 - y1), d, tn>>
        ELSE None

\* line_segment_intersection.  The point (x, y) it returns is rational:
\* <<xn, yn, d, tn>> stands for x = xn / d and y = yn / d, with d > 0, at the
\* parameter t = tn / d along the first segment.
line_segment_intersection(x1, y1, x2, y2, x3, y3, x4, y4) ==
    LET denom == (x1 - x2) * (y3 - y4) - (y1 - y2) * (x3 - x4)
        tnum == (x1 - x3) * (y3 - y4) - (y1 - y3) * (x3 - x4)
        unum == -((x1 - x2) * (y1 - y3) - (y1 - y2) * (x1 - x3))
        sign == IF denom > 0 THEN 1 ELSE -1
        d == sign * denom
        tn == sign * tnum
        un == sign * unum
    IN  IF denom = 0
        THEN None
        ELSE IF 0 <= tn /\ tn <= d /\ 0 <= un /\ un <= d
        THEN <<x1 * d + tn * (x2 - x1), y1 * d + tn * (y2 - y1), d, tn>>
        ELSE None

RECURSIVE FractionLess(_, _, _, _)
\* a / b < c / d for a, c >= 0 and b, d > 0, without forming the products
FractionLess(a, b, c, d) ==
    IF a \div b # c \div d THEN a \div b < c \div d
    ELSE IF c % d = 0 THEN FALSE
    ELSE IF a % b = 0 THEN TRUE
    ELSE FractionLess(d, c % d, b, a % b)

\* min(intersections, key = squared distance from (x1, y1)): the first of the
\* points of least key.  Every point lies on the segment from (x1, y1), at the
\* distance t * |(x2, y2) - (x1, y1)|, so the keys are ordered as the parameters.
closest(intersections) ==
    LET n == Len(intersections)
        before(p, q) == FractionLess(p[4], p[3], q[4], q[3])
        i == CHOOSE k \in 1..n :
                 /\ \A j \in 1..n : ~before(intersections[j], intersections[k])
                 /\ \A j \in 1..(k - 1) : before(intersections[k], intersections[j])
    IN  intersections[i]

\* line_rectangle_intersection
line_rectangle_intersection(x1, y1, x2, y2, rect_x, rect_y, rect_width, rect_height) ==
    LET l == rect_x - rect_width \div 2
        r == rect_x + rect_width \div 2
        b == rect_y - rect_height \div 2
        t == rect_y + rect_height \div 2
        points == << line_segment_intersection(x1, y1, x2, y2, l, t, r, t),
                     line_segment_intersection(x1, y1, x2, y2, l, b, r, b),
                     line_segment_intersection(x1, y1, x2, y2, l, b, l, t),
                     line_segment_intersection(x1, y1, x2, y2, r, b, r, t) >>
        nearest(intersections) ==
            IF intersections = <<>> THEN None ELSE closest(intersections)
    IN  nearest(SelectSeq(points, LAMBDA p : p # None))

\* has_line_of_sight that looks at the first obstacle of the list only
has_line_of_sight_first_only(x1, y1, x2, y2, obs) ==
    \/ obs = <<>>
    \/ line_rectangle_intersection(x1, y1, x2, y2, obs[1].center_x, obs[1].center_y,
                                   obs[1].width, obs[1].height) = None

\* has_line_of_sight
has_line_of_sight(x1, y1, x2, y2, obs) ==
    \A i \in 1..Len(obs) :
        line_rectangle_intersection(x1, y1, x2, y2,
                                    obs[i].center_x, obs[i].center_y,
                                    obs[i].width, obs[i].height) = None

\* the distance from (start_x, start_y) to the point line_rectangle_intersection
\* returned: math.sqrt((x - start_x)**2 + (y - start_y)**2) with x = xn / d and
\* y = yn / d.  Along the rays of the model, which follow an axis, and with
\* obstacle edges at whole coordinates, the root and the quotient are exact.
distance_to(intersection, start_x, start_y) ==
    LET xn == intersection[1] - start_x * intersection[3]
        yn == intersection[2] - start_y * intersection[3]
    IN  sqrt(xn * xn + yn * yn) \div intersection[3]

RECURSIVE for_each_obstacle_last_hit(_, _, _, _, _, _, _, _)
\* the loop of cast_ray without the test dist < closest_distance
for_each_obstacle_last_hit(obs, i, x1, y1, x2, y2, closest_distance, hit_obstacle) ==
    IF i > Len(obs)
    THEN <<closest_distance, hit_obstacle>>
    ELSE LET next(intersection) ==
                 IF intersection # None
                 THEN for_each_obstacle_last_hit(obs, i + 1, x1, y1, x2, y2,
                                                 distance_to(intersection, x1, y1), obs[i])
                 ELSE for_each_obstacle_last_hit(obs, i + 1, x1, y1, x2, y2,
                                                 closest_distance, hit_obstacle)
         IN  next(line_rectangle_intersection(x1, y1, x2, y2,
                                              obs[i].center_x, obs[i].center_y,
                                              obs[i].width, obs[i].height))

RECURSIVE for_each_obstacle(_, _, _, _, _, _, _, _)
\* for obstacle in obstacles, in cast_ray, from the i-th obstacle on
for_each_obstacle(obs, i, x1, y1, x2, y2, closest_distance, hit_obstacle) ==
    IF i > Len(obs)
    THEN <<closest_distance, hit_obstacle>>
    ELSE LET closer(dist) ==
                 IF dist < closest_distance
                 THEN for_each_obstacle(obs, i + 1, x1, y1, x2, y2, dist, obs[i])
                 ELSE for_each_obstacle(obs, i + 1, x1, y1, x2, y2,
                                        closest_distance, hit_obstacle)
             next(intersection) ==
                 IF intersection # None
                 THEN closer(distance_to(intersection, x1, y1))
                 ELSE for_each_obstacle(obs, i + 1, x1, y1, x2, y2,
                                        closest_distance, hit_obstacle)
         IN  next(line_rectangle_intersection(x1, y1, x2, y2,
                                              obs[i].center_x, obs[i].center_y,
                                              obs[i].width, obs[i].height))

\* cast_ray: <<distance, obstacle>>, the obstacle None if none was hit
cast_ray(start_x, start_y, angle, max_distance, obs) ==
    for_each_obstacle(obs, 1, start_x, start_y,
                      start_x + Cos(angle) * max_distance,
                      start_y + Sin(angle) * max_distance,
                      max_distance, None)

\* ------------------------------------------------------------ pathfinding.py

\* Node.__init__: f = g + h; parent is a Node or None
Node(x, y, g, h, parent) ==
    [x |-> x, y |-> y, g |-> g, h |-> h, f |-> g + h, parent |-> parent]

\* heuristic: the Manhattan distance, in tenths
heuristic(x1, y1, x2, y2) ==
    10 * (Abs(x2 - x1) + Abs(y2 - y1))

\* int(a / b) for b > 0: the quotient truncated toward zero
int_div(a, b) ==
    IF a >= 0 THEN a \div b ELSE -((-a) \div b)

\* world_to_grid
world_to_grid(world_x, world_y, tile_size) ==
    <<int_div(world_x, tile_size), int_div(world_y, tile_size)>>

\* grid_to_world: the centre of the tile
grid_to_world(grid_x, grid_y, tile_size) ==
    <<grid_x * tile_size + tile_size \div 2, grid_y * tile_size + tile_size \div 2>>

\* is_walkable_grid: the centre of the tile and eight points at check_radius
\* (the radius plus 4 pixels) around it lie in no obstacle; the coordinates of
\* the points are compared in thousandths, the diagonal ones being at
\* check_radius * 0.707
is_walkable_grid(grid_x, grid_y, obs, tile_size, player_radius) ==
    LET world == grid_to_world(grid_x, grid_y, tile_size)
        wx == 1000 * world[1]
        wy == 1000 * world[2]
        check_radius == player_radius + 4 * 2
        r == 1000 * check_radius
        d == 707 * check_radius
        check_points == {<<wx, wy>>,
                         <<wx + r, wy>>, <<wx - r, wy>>,
                         <<wx, wy + r>>, <<wx, wy - r>>,
                         <<wx + d, wy + d>>, <<wx - d, wy + d>>,
                         <<wx + d, wy - d>>, <<wx - d, wy - d>>}
    IN  \A c \in check_points : \A i \in 1..Len(obs) :
            ~(/\ 1000 * left(obs[i]) <= c[1] /\ c[1] <= 1000 * right(obs[i])
              /\ 1000 * bottom(obs[i]) <= c[2] /\ c[2] <= 1000 * top(obs[i]))

\* get_neighbors: (dx, dy, cost) of the cardinal moves
cardinal_directions ==
    << <<0, 1, 10>>, <<0, -1, 10>>, <<1, 0, 10>>, <<-1, 0, 10>> >>

\* get_neighbors: (dx, dy, cost, the two cardinal moves required) of the
\* diagonal moves
diagonal_directions ==
    << <<1, 1, 14, <<1, 0>>, <<0, 1>>>>,
       <<1, -1, 14, <<1, 0>>, <<0, -1>>>>,
       <<-1, 1, 14, <<-1, 0>>, <<0, 1>>>>,
       <<-1, -1, 14, <<-1, 0>>, <<0, -1>>>> >>

\* get_neighbors with every diagonal neighbour inside the grid (what the source
\* does when it is given no obstacles)
get_neighbors_all_diagonals(x, y, grid_width, grid_height, obs, tile_size, player_radius) ==
    LET in_bounds(d) ==
            /\ 0 <= x + d[1] /\ x + d[1] < grid_width
            /\ 0 <= y + d[2] /\ y + d[2] < grid_height
        neighbors(directions) ==
            [i \in 1..Len(directions) |->
                <<x + directions[i][1], y + directions[i][2], directions[i][3]>>]
    IN  neighbors(SelectSeq(cardinal_directions, in_bounds))
        \o neighbors(SelectSeq(diagonal_directions, in_bounds))

\* get_neighbors, called with obstacles, tile_size and player_radius as
\* find_path does: the list of (x, y, cost): the cardinal neighbours inside the
\* grid, then the diagonal neighbours inside the grid whose two adjacent
\* cardinal tiles are inside the grid and walkable
get_neighbors(x, y, grid_width, grid_height, obs, tile_size, player_radius) ==
    LET in_bounds(nx, ny) ==
            0 <= nx /\ nx < grid_width /\ 0 <= ny /\ ny < grid_height
        cardinal(d) == in_bounds(x + d[1], y + d[2])
        neighbors(cardinals, diagonals) ==
            [i \in 1..Len(cardinals) |->
                <<x + cardinals[i][1], y + cardinals[i][2], cardinals[i][3]>>]
            \o [i \in 1..Len(diagonals) |->
                <<x + diagonals[i][1], y + diagonals[i][2], diagonals[i][3]>>]
        after_cardinals(cardinals) ==
            LET walkable_cardinals ==
                    {<<cardinals[i][1], cardinals[i][2]>> : i \in 1..Len(cardinals)}
                diagonal(d) ==
                    /\ in_bounds(x + d[1], y + d[2])
                    /\ \A c \in {d[4], d[5]} :
                          /\ c \in walkable_cardinals
                          /\ is_walkable_grid(x + c[1], y + c[2], obs, tile_size,
                                              player_radius)
            IN  neighbors(cardinals, SelectSeq(diagonal_directions, diagonal))
    IN  after_cardinals(SelectSeq(cardinal_directions, cardinal))

RECURSIVE siftdown(_, _, _, _)
\* heapq._siftdown: move newitem up from pos while it is less than its parent
\* (Node.__lt__ compares f); positions count from 0
siftdown(heap, startpos, pos, newitem) ==
    IF pos > startpos /\ newitem.f < heap[(pos - 1) \div 2 + 1].f
    THEN siftdown([heap EXCEPT ![pos + 1] = heap[(pos - 1) \div 2 + 1]],
                  startpos, (pos - 1) \div 2, newitem)
    ELSE [heap EXCEPT ![pos + 1] = newitem]

\* heapq.heappush
heappush(heap, item) ==
    siftdown(Append(heap, item), 0, Len(heap), item)

RECURSIVE siftup(_, _, _)
\* heapq._siftup: bubble the smaller child up until a leaf is reached, then
\* sift newitem down from there
siftup(heap, pos, newitem) ==
    LET endpos == Len(heap)
        childpos == 2 * pos + 1
        rightpos == childpos + 1
        smaller == IF rightpos < endpos /\ ~(heap[childpos + 1].f < heap[rightpos + 1].f)
                   THEN rightpos
                   ELSE childpos
    IN  IF childpos < endpos
        THEN siftup([heap EXCEPT ![pos + 1] = heap[smaller + 1]], smaller, newitem)
        ELSE siftdown([heap EXCEPT ![pos + 1] = newitem], 0, pos, newitem)

\* heapq.heappop: <<the least item, the heap left>>
heappop(heap) ==
    LET lastelt == heap[Len(heap)]
        rest == SubSeq(heap, 1, Len(heap) - 1)
    IN  IF rest = <<>>
        THEN <<lastelt, rest>>
        ELSE <<rest[1], siftup(rest, 0, lastelt)>>

\* the floor of the square root
Isqrt(n) ==
    CHOOSE k \in 0..n : k * k <= n /\ (k + 1) * (k + 1) > n

\* has_clear_path that samples no point of the line
has_clear_path_unsampled(start, end, obs, tile_size) == TRUE

\* has_clear_path: num_samples + 1 points along the segment, none within
\* tile_size / 4 of an obstacle; the coordinates of a point are compared
\* multiplied by num_samples
has_clear_path(start, end, obs, tile_size) ==
    LET x1 == start[1]
        y1 == start[2]
        x2 == end[1]
        y2 == end[2]
        half == tile_size \div 2
        num_samples == Isqrt(get_distance_squared(x1, y1, x2, y2) \div (half * half)) + 1
        radius == tile_size \div 4
    IN  \A i \in 0..num_samples : \A k \in 1..Len(obs) :
            LET test_x == x1 * num_samples + (x2 - x1) * i
                test_y == y1 * num_samples + (y2 - y1) * i
            IN  ~(/\ (left(obs[k]) - radius) * num_samples <= test_x
                  /\ test_x <= (right(obs[k]) + radius) * num_samples
                  /\ (bottom(obs[k]) - radius) * num_samples <= test_y
                  /\ test_y <= (top(obs[k]) + radius) * num_samples)

RECURSIVE furthest_clear(_, _, _, _, _, _)
\* simplify_path: the for loop over test_idx, that stops at the first waypoint
\* not in clear view of path[current_idx]; indices count from 0
furthest_clear(path, current_idx, test_idx, furthest_idx, obs, tile_size) ==
    IF test_idx < Len(path)
       /\ has_clear_path(path[current_idx + 1], path[test_idx + 1], obs, tile_size)
    THEN furthest_clear(path, current_idx, test_idx + 1, test_idx, obs, tile_size)
    ELSE furthest_idx

RECURSIVE simplify_from(_, _, _, _, _)
\* simplify_path: the while loop
simplify_from(path, simplified, current_idx, obs, tile_size) ==
    IF current_idx < Len(path) - 1
    THEN LET jump(furthest_idx) ==
                 simplify_from(path, Append(simplified, path[furthest_idx + 1]),
                               furthest_idx, obs, tile_size)
         IN  jump(furthest_clear(path, current_idx, current_idx + 2,
                                 current_idx + 1, obs, tile_size))
    ELSE simplified

\* simplify_path that returns the path as it is
simplify_path_skipped(path, obs, tile_size) == path

\* simplify_path whose list simplified starts empty
simplify_path_unseeded(path, obs, tile_size) ==
    IF Len(path) <= 2
    THEN path
    ELSE simplify_from(path, <<>>, 0, obs, tile_size)

\* simplify_path
simplify_path(path, obs, tile_size) ==
    IF Len(path) <= 2
    THEN path
    ELSE simplify_from(path, <<path[1]>>, 0, obs, tile_size)

\* find_nearest_walkable without the test that the tile is inside the grid
find_nearest_walkable_anywhere(x, y, obs, tile_size, grid_width, grid_height, player_radius, max_radius) ==
    LET earlier(a, b) ==
            \/ a[1] < b[1]
            \/ a[1] = b[1] /\ a[2] < b[2]
            \/ a[1] = b[1] /\ a[2] = b[2] /\ a[3] < b[3]
        tile(first) == <<x + first[2], y + first[3]>>
        nearest(found) ==
            IF found = {}
            THEN None
            ELSE tile(CHOOSE c \in found : \A o \in found \ {c} : earlier(c, o))
    IN  nearest({c \in (1..max_radius) \X (-max_radius..max_radius) \X (-max_radius..max_radius) :
                    /\ Abs(c[2]) <= c[1] /\ Abs(c[3]) <= c[1]
                    /\ Abs(c[2]) = c[1] \/ Abs(c[3]) = c[1]
                    /\ is_walkable_grid(x + c[2], y + c[3], obs, tile_size, player_radius)})

\* find_nearest_walkable: the first walkable tile inside the grid on the
\* perimeters of radius 1 to max_radius, in the order of the loops over
\* radius, dx and dy
find_nearest_walkable(x, y, obs, tile_size, grid_width, grid_height, player_radius, max_radius) ==
    LET earlier(a, b) ==
            \/ a[1] < b[1]
            \/ a[1] = b[1] /\ a[2] < b[2]
            \/ a[1] = b[1] /\ a[2] = b[2] /\ a[3] < b[3]
        tile(first) == <<x + first[2], y + first[3]>>
        nearest(found) ==
            IF found = {}
            THEN None
            ELSE tile(CHOOSE c \in found : \A o \in found \ {c} : earlier(c, o))
    IN  nearest({c \in (1..max_radius) \X (-max_radius..max_radius) \X (-max_radius..max_radius) :
                    /\ Abs(c[2]) <= c[1] /\ Abs(c[3]) <= c[1]
                    /\ Abs(c[2]) = c[1] \/ Abs(c[3]) = c[1]
                    /\ 0 <= x + c[2] /\ x + c[2] < grid_width
                    /\ 0 <= y + c[3] /\ y + c[3] < grid_height
                    /\ is_walkable_grid(x + c[2], y + c[3], obs, tile_size, player_radius)})

RECURSIVE reconstruct_path(_, _)
\* find_path: the path from the start to node, following the parents back
reconstruct_path(node, tile_size) ==
    IF node = None
    THEN <<>>
    ELSE Append(reconstruct_path(node.parent, tile_size),
                grid_to_world(node.x, node.y, tile_size))

RECURSIVE for_each_neighbor_never_back(_, _, _, _, _)
\* a loop over the neighbours that skips every neighbour farther from the goal
\* than current, so that the search never steps back to go around a wall
for_each_neighbor_never_back(neighbors, st, current, closed_set, search) ==
    IF neighbors = <<>>
    THEN st
    ELSE LET nx == Head(neighbors)[1]
             ny == Head(neighbors)[2]
             tentative_g == current.g + Head(neighbors)[3]
             skipped ==
                 \/ <<nx, ny>> \in closed_set
                 \/ ~is_walkable_grid(nx, ny, search.obstacles, search.tile_size,
                                      search.player_radius)
                 \/ heuristic(nx, ny, search.goal_grid[1], search.goal_grid[2])
                        > heuristic(current.x, current.y,
                                    search.goal_grid[1], search.goal_grid[2])
             better ==
                 \/ <<nx, ny>> \notin DOMAIN st.g_scores
                 \/ tentative_g < st.g_scores[<<nx, ny>>]
             neighbor == Node(nx, ny, tentative_g,
                              heuristic(nx, ny, search.goal_grid[1], search.goal_grid[2]),
                              current)
         IN  for_each_neighbor_never_back(
                 Tail(neighbors),
                 IF ~skipped /\ better
                 THEN [open_set |-> heappush(st.open_set, neighbor),
                       g_scores |-> [c \in DOMAIN st.g_scores \cup {<<nx, ny>>} |->
                                        IF c = <<nx, ny>> THEN tentative_g
                                        ELSE st.g_scores[c]]]
                 ELSE st,
                 current, closed_set, search)

RECURSIVE for_each_neighbor(_, _, _, _, _)
\* find_path: the for loop over the neighbours of current; st holds open_set
\* and g_scores, search the arguments of find_path and the goal tile
for_each_neighbor(neighbors, st, current, closed_set, search) ==
    IF neighbors = <<>>
    THEN st
    ELSE LET nx == Head(neighbors)[1]
             ny == Head(neighbors)[2]
             tentative_g == current.g + Head(neighbors)[3]
             skipped ==
                 \/ <<nx, ny>> \in closed_set
                 \/ ~is_walkable_grid(nx, ny, search.obstacles, search.tile_size,
                                      search.player_radius)
                 \/ /\ search.max_distance # None
                    /\ search.max_distance # 0
                    /\ tentative_g > 10 * search.max_distance
             better ==
                 \/ <<nx, ny>> \notin DOMAIN st.g_scores
                 \/ tentative_g < st.g_scores[<<nx, ny>>]
             neighbor == Node(nx, ny, tentative_g,
                              heuristic(nx, ny, search.goal_grid[1], search.goal_grid[2]),
                              current)
         IN  for_each_neighbor(
                 Tail(neighbors),
                 IF ~skipped /\ better
                 THEN [open_set |-> heappush(st.open_set, neighbor),
                       g_scores |-> [c \in DOMAIN st.g_scores \cup {<<nx, ny>>} |->
                                        IF c = <<nx, ny>> THEN tentative_g
                                        ELSE st.g_scores[c]]]
                 ELSE st,
                 current, closed_set, search)

RECURSIVE while_open_set(_, _, _, _)
\* find_path: the while loop of A*; the node of the goal tile it pops, or None
\* when open_set runs empty
while_open_set(open_set, closed_set, g_scores, search) ==
    IF open_set = <<>>
    THEN None
    ELSE LET continue(st, closed) ==
                 while_open_set(st.open_set, closed, st.g_scores, search)
             expand(current, rest, closed) ==
                 IF current.x = search.goal_grid[1] /\ current.y = search.goal_grid[2]
                 THEN current
                 ELSE continue(for_each_neighbor(
                                   get_neighbors(current.x, current.y,
                                                 search.grid_width, search.grid_height,
                                                 search.obstacles, search.tile_size,
                                                 search.player_radius),
                                   [open_set |-> rest, g_scores |-> g_scores],
                                   current, closed, search),
                               closed)
             visit(popped) ==
                 expand(popped[1], popped[2],
                        closed_set \cup {<<popped[1].x, popped[1].y>>})
         IN  visit(heappop(open_set))

\* find_path up to the end of the search: the node of the goal tile, whose
\* parents lead back to the start tile, or None
find_goal_node(start_x, start_y, goal_x, goal_y, obs, tile_size, grid_width, grid_height, player_radius, max_distance) ==
    LET start_grid == world_to_grid(start_x, start_y, tile_size)
        goal == world_to_grid(goal_x, goal_y, tile_size)
        start_node(goal_grid) ==
            Node(start_grid[1], start_grid[2], 0,
                 heuristic(start_grid[1], start_grid[2], goal_grid[1], goal_grid[2]),
                 None)
        search(goal_grid) ==
            IF ~is_walkable_grid(start_grid[1], start_grid[2], obs, tile_size, player_radius)
            THEN None
            ELSE IF goal_grid = None
            THEN None
            ELSE while_open_set(heappush(<<>>, start_node(goal_grid)), {}, start_grid :> 0,
                                [goal_grid |-> goal_grid, obstacles |-> obs,
                                 tile_size |-> tile_size, grid_width |-> grid_width,
                                 grid_height |-> grid_height,
                                 player_radius |-> player_radius,
                                 max_distance |-> max_distance])
    IN  search(IF is_walkable_grid(goal[1], goal[2], obs, tile_size, player_radius)
               THEN goal
               ELSE find_nearest_walkable(goal[1], goal[2], obs, tile_size,
                                          grid_width, grid_height, player_radius, 5))

\* find_path: the list of waypoints, reconstructed from the node of the goal
\* tile and simplified, or None
find_path(start_x, start_y, goal_x, goal_y, obs, tile_size, grid_width, grid_height, player_radius, max_distance) ==
    LET reached(node) ==
            IF node = None
            THEN None
            ELSE simplify_path(reconstruct_path(node, tile_size), obs, tile_size)
    IN  reached(find_goal_node(start_x, start_y, goal_x, goal_y, obs, tile_size,
                               grid_width, grid_height, player_radius, max_distance))

\* ------------------------------------------------------------ player_animation.py

\* the melee attack animation has 15 frames
AttackFrames == 15

\* PlayerAnimationManager.__init__, the part that steers an attack;
\* frame_counter counts half frames (attack_animation_speed = 0.5)
PlayerAnimationManager ==
    [is_attacking |-> FALSE, current_frame |-> 0, frame_counter |-> 0]

\* PlayerAnimationManager.start_attack
start_attack_animation(self) ==
    [is_attacking |-> TRUE, current_frame |-> 0, frame_counter |-> 0]

\* PlayerAnimationManager.update while the attack animation plays
update_animation(self) ==
    LET counter == self.frame_counter + 1
    IN  IF counter < 2
        THEN [self EXCEPT !.frame_counter = counter]
        ELSE IF self.current_frame + 1 >= AttackFrames
             THEN [is_attacking |-> FALSE, current_frame |-> 0, frame_counter |-> counter - 2]
             ELSE [self EXCEPT !.current_frame = self.current_frame + 1,
                               !.frame_counter = counter - 2]

\* PlayerAnimationManager.should_deal_damage: the attack just crossed half of
\* its frames
should_deal_damage(self) ==
    /\ self.is_attacking
    /\ 2 * (self.current_frame - 1) + self.frame_counter < AttackFrames
    /\ AttackFrames <= 2 * self.current_frame + self.frame_counter

\* ------------------------------------------------------------ entities.py

\* Player.__init__; attack_target is None or <<the place of the attacked guard
\* in the environment's list>>, animated_sprite the animation manager of the sprite
Player(x, y) ==
    [center_x |-> x, center_y |-> y, alive |-> TRUE,
     radius |-> PLAYER_SIZE, speed |-> PLAYER_MOVEMENT_SPEED,
     is_attacking |-> FALSE, attack_target |-> None, damage_dealt |-> FALSE,
     kills |-> 0, animated_sprite |-> PlayerAnimationManager]

\* Bullet.__init__: where it starts and the direction it flies in
Bullet(x, y, angle) ==
    [center_x |-> x, center_y |-> y, angle |-> angle, age |-> 0, active |-> TRUE]

\* alert_duration = 180 frames
alert_duration == 180

\* movement_threshold = 8.0 pixels
movement_threshold == 8 * 2

\* Enemy.__init__; find_path_result is no attribute of the source: it records
\* what the call of find_path of the last update_ai returned, "path" or
\* "None", or that update_ai made no such call
Enemy(x, y, patrol_points) ==
    [center_x |-> x,
     center_y |-> y,
     radius |-> GUARD_SIZE,
     speed |-> GUARD_MOVEMENT_SPEED,
     chase_speed |-> GUARD_CHASE_SPEED,
     alive |-> TRUE,
     vision_range |-> GUARD_VISION_RANGE,
     vision_angle |-> 0,
     fov |-> GUARD_VISION_ANGLE,
     can_see_player |-> FALSE,
     state |-> "patrol",
     patrol_points |-> patrol_points,
     current_patrol_index |-> 0,
     patrol_pause_counter |-> 0,
     last_known_player_pos |-> None,
     alert_timer |-> 0,
     alert_duration |-> alert_duration,
     shoot_cooldown |-> 0,
     shoot_delay_timer |-> 0,
     is_shooting |-> FALSE,
     target_position |-> None,
     path_waypoints |-> <<>>,
     current_waypoint_idx |-> 0,
     movement_threshold |-> movement_threshold,
     path_recalc_timer |-> 0,
     find_path_result |-> "not called"]

\* _check_player_vision without the cone test
check_player_vision_no_cone(self, p, obs) ==
    IF ~p.alive
    THEN FALSE
    ELSE has_line_of_sight(self.center_x, self.center_y, p.center_x, p.center_y, obs)

\* Enemy._check_player_vision
check_player_vision(self, p, obs) ==
    IF ~p.alive
    THEN FALSE
    ELSE IF ~is_point_in_cone(p.center_x, p.center_y, self.center_x, self.center_y,
                              self.vision_angle, self.fov, self.vision_range)
    THEN FALSE
    ELSE has_line_of_sight(self.center_x, self.center_y, p.center_x, p.center_y, obs)

\* Enemy._shoot_at_player
shoot_at_player(self, p) ==
    Bullet(self.center_x, self.center_y,
           get_angle_to_point(self.center_x, self.center_y, p.center_x, p.center_y))

\* _clear_path that leaves current_waypoint_idx as it is
clear_path_keep_cursor(self) ==
    [self EXCEPT !.target_position = None,
                 !.path_waypoints = <<>>]

\* Enemy._clear_path
clear_path(self) ==
    [self EXCEPT !.target_position = None,
                 !.path_waypoints = <<>>,
                 !.current_waypoint_idx = 0]

\* Enemy._set_pathfinding_target
set_pathfinding_target(self, target_x, target_y, obs, grid_width, grid_height, tile_size) ==
    LET follow(path) ==
            IF path # <<>>
            THEN [self EXCEPT !.target_position = <<target_x, target_y>>,
                              !.path_waypoints = path,
                              !.current_waypoint_idx = 0,
                              !.find_path_result = "path"]
            ELSE clear_path([self EXCEPT !.find_path_result = "None"])
    IN  follow(find_path(self.center_x, self.center_y, target_x, target_y,
                         obs, tile_size, grid_width, grid_height, self.radius, None))

\* _follow_path that, after stepping the cursor, still heads for the waypoint
\* it read before the step
follow_path_stale_waypoint(self, speed_multiplier) ==
    IF self.path_waypoints = <<>>
    THEN <<self, TRUE>>
    ELSE IF self.current_waypoint_idx >= Len(self.path_waypoints)
    THEN <<clear_path(self), TRUE>>
    ELSE LET waypoint == self.path_waypoints[self.current_waypoint_idx + 1]
             close == get_distance_squared(self.center_x, self.center_y,
                                           waypoint[1], waypoint[2])
                          < self.movement_threshold * self.movement_threshold
             move_speed == (self.speed * speed_multiplier) \div 2
             move(idx, angle) ==
                 << [self EXCEPT !.current_waypoint_idx = idx,
                                 !.vision_angle = angle,
                                 !.center_x = @ + Cos(angle) * move_speed,
                                 !.center_y = @ + Sin(angle) * move_speed],
                    FALSE >>
             advance(idx) ==
                 IF idx >= Len(self.path_waypoints)
                 THEN <<clear_path(self), TRUE>>
                 ELSE move(idx, get_angle_to_point(self.center_x, self.center_y,
                                                   waypoint[1], waypoint[2]))
         IN  advance(IF close
                     THEN self.current_waypoint_idx + 1
                     ELSE self.current_waypoint_idx)

\* Enemy._follow_path: <<the guard afterwards, whether it reached the end>>
follow_path(self, speed_multiplier) ==
    IF self.path_waypoints = <<>>
    THEN <<self, TRUE>>
    ELSE IF self.current_waypoint_idx >= Len(self.path_waypoints)
    THEN <<clear_path(self), TRUE>>
    ELSE LET waypoint == self.path_waypoints[self.current_waypoint_idx + 1]
             close == get_distance_squared(self.center_x, self.center_y,
                                           waypoint[1], waypoint[2])
                          < self.movement_threshold * self.movement_threshold
             move_speed == (self.speed * speed_multiplier) \div 2
             move(idx, angle) ==
                 << [self EXCEPT !.current_waypoint_idx = idx,
                                 !.vision_angle = angle,
                                 !.center_x = @ + Cos(angle) * move_speed,
                                 !.center_y = @ + Sin(angle) * move_speed],
                    FALSE >>
             head_for(idx, next) ==
                 move(idx, get_angle_to_point(self.center_x, self.center_y,
                                              next[1], next[2]))
             advance(idx) ==
                 IF idx >= Len(self.path_waypoints)
                 THEN <<clear_path(self), TRUE>>
                 ELSE head_for(idx, self.path_waypoints[idx + 1])
         IN  advance(IF close
                     THEN self.current_waypoint_idx + 1
                     ELSE self.current_waypoint_idx)

\* _chase_player that does not look how far the player is from target_position
chase_player_by_timer(self, p, obs, delta_time, grid_width, grid_height, tile_size) ==
    LET timed == IF self.path_recalc_timer = 0
                 THEN [self EXCEPT !.path_recalc_timer = 30]
                 ELSE self
        should_recalc ==
            \/ self.path_recalc_timer = 0
            \/ self.target_position = None
        planned == IF should_recalc
                   THEN set_pathfinding_target(timed, p.center_x, p.center_y, obs,
                                               grid_width, grid_height, tile_size)
                   ELSE timed
    IN  follow_path(planned, self.chase_speed * delta_time)[1]

\* Enemy._chase_player
chase_player(self, p, obs, delta_time, grid_width, grid_height, tile_size) ==
    LET timed == IF self.path_recalc_timer = 0
                 THEN [self EXCEPT !.path_recalc_timer = 30]
                 ELSE self
        should_recalc ==
            \/ self.path_recalc_timer = 0
            \/ self.target_position = None
            \/ get_distance_squared(p.center_x, p.center_y,
                                    self.target_position[1], self.target_position[2])
                   > (30 * 2) * (30 * 2)
        planned == IF should_recalc
                   THEN set_pathfinding_target(timed, p.center_x, p.center_y, obs,
                                               grid_width, grid_height, tile_size)
                   ELSE timed
    IN  follow_path(planned, self.chase_speed * delta_time)[1]

\* an _investigate_position that stops at the position and stays alerted
investigate_position_keeps_alert(self, position, obs, delta_time, grid_width, grid_height, tile_size) ==
    LET target_x == position[1]
        target_y == position[2]
        planned ==
            IF \/ self.target_position = None
               \/ get_distance_squared(target_x, target_y,
                                       self.target_position[1], self.target_position[2])
                      > (5 * 2) * (5 * 2)
            THEN set_pathfinding_target(self, target_x, target_y, obs,
                                        grid_width, grid_height, tile_size)
            ELSE self
    IN  IF get_distance_squared(self.center_x, self.center_y, target_x, target_y)
               < (10 * 2) * (10 * 2)
        THEN clear_path(self)
        ELSE follow_path(planned, self.speed * delta_time)[1]

\* Enemy._investigate_position
investigate_position(self, position, obs, delta_time, grid_width, grid_height, tile_size) ==
    LET target_x == position[1]
        target_y == position[2]
        planned ==
            IF \/ self.target_position = None
               \/ get_distance_squared(target_x, target_y,
                                       self.target_position[1], self.target_position[2])
                      > (5 * 2) * (5 * 2)
            THEN set_pathfinding_target(self, target_x, target_y, obs,
                                        grid_width, grid_height, tile_size)
            ELSE self
        arrive(followed) ==
            IF followed[2]
            THEN [followed[1] EXCEPT !.last_known_player_pos = None, !.alert_timer = 0]
            ELSE followed[1]
    IN  IF get_distance_squared(self.center_x, self.center_y, target_x, target_y)
               < (10 * 2) * (10 * 2)
        THEN clear_path([self EXCEPT !.last_known_player_pos = None, !.alert_timer = 0])
        ELSE arrive(follow_path(planned, self.speed * delta_time))

\* Enemy._move_with_collision; turn is the random.uniform(45, 135) it draws
\* when the guard is stuck
move_with_collision(self, dx, dy, obs, turn) ==
    LET buffer == 2 * 2
        clamp_x(x) == Max(self.radius + buffer, Min(SCREEN_WIDTH - self.radius - buffer, x))
        clamp_y(y) == Max(self.radius + buffer, Min(SCREEN_HEIGHT - self.radius - buffer, y))
        collision_radius == self.radius + buffer
        collision(x, y) ==
            \E i \in 1..Len(obs) :
                LET closest_x == Max(left(obs[i]), Min(x, right(obs[i])))
                    closest_y == Max(bottom(obs[i]), Min(y, top(obs[i])))
                IN  get_distance_squared(x, y, closest_x, closest_y)
                        < collision_radius * collision_radius
        new_x == clamp_x(self.center_x + dx)
        new_y == clamp_y(self.center_y + dy)
        test_x == clamp_x(self.center_x + dx)
        test_y == clamp_y(self.center_y + dy)
    IN  IF ~collision(new_x, new_y)
        THEN [self EXCEPT !.center_x = new_x, !.center_y = new_y]
        ELSE IF ~collision(test_x, self.center_y)
        THEN [self EXCEPT !.center_x = test_x]
        ELSE IF ~collision(self.center_x, test_y)
        THEN [self EXCEPT !.center_y = test_y]
        ELSE [self EXCEPT !.vision_angle = (@ + turn) % 36000]

\* _patrol that sets no pause when the guard arrives at a patrol point
patrol_without_pause(self, obs, delta_time, grid_width, grid_height, tile_size, random) ==
    IF self.patrol_points = <<>>
    THEN LET turned == IF random.change
                       THEN [self EXCEPT !.vision_angle = random.angle]
                       ELSE self
         IN  move_with_collision(turned,
                                 Cos(turned.vision_angle) * self.speed * delta_time,
                                 Sin(turned.vision_angle) * self.speed * delta_time,
                                 obs, random.turn)
    ELSE IF self.patrol_pause_counter > 0
    THEN clear_path([self EXCEPT !.patrol_pause_counter = @ - 1])
    ELSE LET target == self.patrol_points[self.current_patrol_index + 1]
             planned ==
                 IF \/ self.target_position = None
                    \/ get_distance_squared(target[1], target[2],
                                            self.target_position[1],
                                            self.target_position[2])
                           > (5 * 2) * (5 * 2)
                 THEN set_pathfinding_target(self, target[1], target[2], obs,
                                             grid_width, grid_height, tile_size)
                 ELSE self
         IN  IF get_distance_squared(self.center_x, self.center_y, target[1], target[2])
                    < (10 * 2) * (10 * 2)
             THEN clear_path([self EXCEPT
                                !.current_patrol_index = (@ + 1) % Len(self.patrol_points),
                                !.patrol_pause_counter = 0])
             ELSE follow_path(planned, self.speed * delta_time)[1]

\* Enemy._patrol; random holds what the random module returns when it is
\* asked: change is random.random() < 0.02, angle is random.uniform(0, 360),
\* turn is random.uniform(45, 135)
patrol(self, obs, delta_time, grid_width, grid_height, tile_size, random) ==
    IF self.patrol_points = <<>>
    THEN LET turned == IF random.change
                       THEN [self EXCEPT !.vision_angle = random.angle]
                       ELSE self
         IN  move_with_collision(turned,
                                 Cos(turned.vision_angle) * self.speed * delta_time,
                                 Sin(turned.vision_angle) * self.speed * delta_time,
                                 obs, random.turn)
    ELSE IF self.patrol_pause_counter > 0
    THEN clear_path([self EXCEPT !.patrol_pause_counter = @ - 1])
    ELSE LET target == self.patrol_points[self.current_patrol_index + 1]
             planned ==
                 IF \/ self.target_position = None
                    \/ get_distance_squared(target[1], target[2],
                                            self.target_position[1],
                                            self.target_position[2])
                           > (5 * 2) * (5 * 2)
                 THEN set_pathfinding_target(self, target[1], target[2], obs,
                                             grid_width, grid_height, tile_size)
                 ELSE self
         IN  IF get_distance_squared(self.center_x, self.center_y, target[1], target[2])
                    < (10 * 2) * (10 * 2)
             THEN clear_path([self EXCEPT
                                !.current_patrol_index = (@ + 1) % Len(self.patrol_points),
                                !.patrol_pause_counter = GUARD_PATROL_PAUSE_TIME])
             ELSE follow_path(planned, self.speed * delta_time)[1]

\* update_ai firing on every tick once the delay has passed
update_ai_rapid_fire(self, p, obs, delta_time, grid_width, grid_height, tile_size, random) ==
    IF ~self.alive
    THEN <<self, None>>
    ELSE LET cooled == [self EXCEPT
                          !.shoot_cooldown = IF @ > 0 THEN @ - 1 ELSE @,
                          !.find_path_result = "not called"]
             act(timed, shoots) ==
                 << IF timed.state = "chase"
                    THEN chase_player(timed, p, obs, delta_time,
                                      grid_width, grid_height, tile_size)
                    ELSE IF timed.state = "alert" /\ timed.last_known_player_pos # None
                    THEN investigate_position(timed, timed.last_known_player_pos, obs,
                                              delta_time, grid_width, grid_height,
                                              tile_size)
                    ELSE patrol(timed, obs, delta_time, grid_width, grid_height,
                                tile_size, random),
                    IF shoots THEN shoot_at_player(self, p) ELSE None >>
             tick(aware, shoots) ==
                 act(IF aware.path_recalc_timer > 0
                     THEN [aware EXCEPT !.path_recalc_timer = @ - 1]
                     ELSE aware,
                     shoots)
             look(can_see, shoots) ==
                 tick(IF can_see
                      THEN [cooled EXCEPT
                              !.can_see_player = TRUE,
                              !.state = "chase",
                              !.last_known_player_pos = <<p.center_x, p.center_y>>,
                              !.alert_timer = self.alert_duration,
                              !.shoot_delay_timer =
                                  IF @ < ENEMY_SHOOT_DELAY THEN @ + 1 ELSE @,
                              !.shoot_cooldown =
                                  IF shoots THEN ENEMY_SHOOT_COOLDOWN ELSE @,
                              !.is_shooting = IF shoots THEN TRUE ELSE @]
                      ELSE [cooled EXCEPT
                              !.can_see_player = FALSE,
                              !.shoot_delay_timer = 0,
                              !.is_shooting = FALSE,
                              !.state = IF self.alert_timer > 0 THEN "alert" ELSE "patrol",
                              !.alert_timer = IF @ > 0 THEN @ - 1 ELSE @],
                      shoots)
             see(can_see) ==
                 look(can_see,
                      /\ can_see
                      /\ ~(self.shoot_delay_timer < ENEMY_SHOOT_DELAY))
         IN  see(check_player_vision(self, p, obs))

\* Enemy.update_ai: <<the guard afterwards, the bullet returned or None>>; it
\* starts with no call of find_path recorded
update_ai(self, p, obs, delta_time, grid_width, grid_height, tile_size, random) ==
    IF ~self.alive
    THEN <<self, None>>
    ELSE LET cooled == [self EXCEPT
                          !.shoot_cooldown = IF @ > 0 THEN @ - 1 ELSE @,
                          !.find_path_result = "not called"]
             act(timed, shoots) ==
                 << IF timed.state = "chase"
                    THEN chase_player(timed, p, obs, delta_time,
                                      grid_width, grid_height, tile_size)
                    ELSE IF timed.state = "alert" /\ timed.last_known_player_pos # None
                    THEN investigate_position(timed, timed.last_known_player_pos, obs,
                                              delta_time, grid_width, grid_height,
                                              tile_size)
                    ELSE patrol(timed, obs, delta_time, grid_width, grid_height,
                                tile_size, random),
                    IF shoots THEN shoot_at_player(self, p) ELSE None >>
             tick(aware, shoots) ==
                 act(IF aware.path_recalc_timer > 0
                     THEN [aware EXCEPT !.path_recalc_timer = @ - 1]
                     ELSE aware,
                     shoots)
             look(can_see, shoots) ==
                 tick(IF can_see
                      THEN [cooled EXCEPT
                              !.can_see_player = TRUE,
                              !.state = "chase",
                              !.last_known_player_pos = <<p.center_x, p.center_y>>,
                              !.alert_timer = self.alert_duration,
                              !.shoot_delay_timer =
                                  IF @ < ENEMY_SHOOT_DELAY THEN @ + 1 ELSE @,
                              !.shoot_cooldown =
                                  IF shoots THEN ENEMY_SHOOT_COOLDOWN ELSE @,
                              !.is_shooting = IF shoots THEN TRUE ELSE @]
                      ELSE [cooled EXCEPT
                              !.can_see_player = FALSE,
                              !.shoot_delay_timer = 0,
                              !.is_shooting = FALSE,
                              !.state = IF self.alert_timer > 0 THEN "alert" ELSE "patrol",
                              !.alert_timer = IF @ > 0 THEN @ - 1 ELSE @],
                      shoots)
             see(can_see) ==
                 look(can_see,
                      /\ can_see
                      /\ ~(self.shoot_delay_timer < ENEMY_SHOOT_DELAY)
                      /\ cooled.shoot_cooldown = 0)
         IN  see(check_player_vision(self, p, obs))

\* Enemy.die
die(self) ==
    [self EXCEPT !.alive = FALSE]

\* ------------------------------------------------------------ Bullet, Player

\* Bullet.update: <<the bullet afterwards, whether it is to be removed>>
bullet_update(self, obs) ==
    LET new_x == self.center_x + Cos(self.angle) * BULLET_SPEED
        new_y == self.center_y + Sin(self.angle) * BULLET_SPEED
        hits(o) == LET closest_x == Max(left(o), Min(new_x, right(o)))
                       closest_y == Max(bottom(o), Min(new_y, top(o)))
                   IN  get_distance_squared(new_x, new_y, closest_x, closest_y)
                           < BULLET_SIZE * BULLET_SIZE
        aged == [self EXCEPT !.age = self.age + 1]
    IN  IF ~self.active
        THEN <<self, TRUE>>
        ELSE IF aged.age >= BULLET_LIFETIME
        THEN <<[aged EXCEPT !.active = FALSE], TRUE>>
        ELSE IF \/ new_x < 0 \/ new_x > SCREEN_WIDTH
                \/ new_y < 0 \/ new_y > SCREEN_HEIGHT
                \/ \E i \in 1..Len(obs) : hits(obs[i])
        THEN <<[aged EXCEPT !.active = FALSE], TRUE>>
        ELSE <<[aged EXCEPT !.center_x = new_x, !.center_y = new_y], FALSE>>

\* Bullet.check_hit_player
check_hit_player(self, p) ==
    /\ self.active
    /\ p.alive
    /\ get_distance_squared(self.center_x, self.center_y, p.center_x, p.center_y)
           < (BULLET_SIZE + p.radius) * (BULLET_SIZE + p.radius)

\* Player.move: the player afterwards
move(self, dx, dy, obs, screen_width, screen_height) ==
    LET new_x == Max(self.radius, Min(screen_width - self.radius, self.center_x + dx * self.speed))
        new_y == Max(self.radius, Min(screen_height - self.radius, self.center_y + dy * self.speed))
        hits(o) == LET closest_x == Max(left(o), Min(new_x, right(o)))
                       closest_y == Max(bottom(o), Min(new_y, top(o)))
                   IN  get_distance_squared(new_x, new_y, closest_x, closest_y)
                           < self.radius * self.radius
    IN  IF ~self.alive \/ self.is_attacking
        THEN self
        ELSE IF \E i \in 1..Len(obs) : hits(obs[i])
        THEN self
        ELSE [self EXCEPT !.center_x = new_x, !.center_y = new_y]

\* Player.can_attack
can_attack(self, e) ==
    /\ self.alive
    /\ e.alive
    /\ ~self.is_attacking
    /\ get_distance_squared(self.center_x, self.center_y, e.center_x, e.center_y)
           < PLAYER_MELEE_RANGE * PLAYER_MELEE_RANGE

\* Player.start_attack; attack_target is <<the place of the guard in the
\* environment's list>>
start_attack(self, target, e) ==
    IF ~self.alive \/ ~e.alive \/ self.is_attacking
    THEN self
    ELSE [self EXCEPT !.is_attacking = TRUE,
                      !.attack_target = <<target>>,
                      !.damage_dealt = FALSE,
                      !.animated_sprite = start_attack_animation(self.animated_sprite)]

\* Player.update_attack: <<the player afterwards, whether damage is dealt now>>
update_attack(self) ==
    LET sprite == update_animation(self.animated_sprite)
        updated == [self EXCEPT !.animated_sprite = sprite]
    IN  IF ~self.is_attacking
        THEN <<self, FALSE>>
        ELSE IF ~self.damage_dealt /\ should_deal_damage(sprite)
        THEN <<[updated EXCEPT !.damage_dealt = TRUE], TRUE>>
        ELSE IF ~sprite.is_attacking
        THEN <<[updated EXCEPT !.is_attacking = FALSE,
                               !.attack_target = None,
                               !.damage_dealt = FALSE], FALSE>>
        ELSE <<updated, FALSE>>

\* Player.die
player_die(self) ==
    [self EXCEPT !.alive = FALSE]

\* ------------------------------------------------------------ inputs

\* the longest time a guard goes without seeing the target
MaxUnseen == 960

\* delta_time arguments: a zero step, 0.1 s, 0.2 s, 0.5 s, 3 s
DeltaTimes == {0, 10, 20, 50, 300}

\* delta_time arguments of a DetectionLevel used on its own
DetectionDeltaTimes == {0, 1, 7, 30, 1000}

\* positions of the target and of the guard
Positions == {<<50, 10>>, <<50, 80>>}

\* the position the guard stands at while its state machine is updated
GuardPositions == {<<0, 0>>}

\* thresholds a GuardStateMachine is built with: the default 0.3 s, and 1 s
Thresholds == {detection_threshold, 100}

\* thresholds a DetectionLevel used on its own is built with
DetectionThresholds == {detection_threshold, 50, 100}

\* positions a guard looks from
EnemyPositions == {<<0, 0>>, <<10, -10>>}

\* directions a guard faces: 0, 15, 90, 180, -179 and 360 degrees
VisionAngles == {0, 1500, 9000, 18000, -17900, 36000}

\* fields of view: the configured one and a full circle
Fovs == {GUARD_VISION_ANGLE, 36000}

\* vision ranges: 100, and the configured one
VisionRanges == {100, GUARD_VISION_RANGE}

\* positions of the player: inside the cone, beside it, at the range and just
\* beyond it, on the guard, on the diagonal, behind, on either side of the edge
PlayerPositions ==
    {<<50, 10>>, <<50, 80>>, <<100, 0>>, <<101, 0>>, <<0, 0>>,
     <<50, 50>>, <<-50, 0>>, <<87, 50>>, <<86, 50>>}

\* obstacle lists: none; a wall between (0, 0) and (50, 10); a block far away;
\* both; a block whose edge passes through (50, 10); a block lying on the x axis
ObstacleLists ==
    {<<>>,
     <<Obstacle(25, 5, 4, 20)>>,
     <<Obstacle(200, 200, 20, 20)>>,
     <<Obstacle(200, 200, 20, 20), Obstacle(25, 5, 4, 20)>>,
     <<Obstacle(52, 10, 4, 4)>>,
     <<Obstacle(50, 5, 10, 10)>>}

\* delta_time of a tick: the game passes 1.0
TickDeltaTime == 1

\* grid_width of the level of the guard: a corridor of five tiles
GridWidth == 5

\* grid_height of the level of the guard
GridHeight == 1

\* where the guard of the corridor starts: the centre of its first tile
EnemyStart == grid_to_world(0, 0, TILE_SIZE)

\* the patrol route of the corridor: between the first and the third tile
PatrolRoute ==
    <<grid_to_world(0, 0, TILE_SIZE), grid_to_world(2, 0, TILE_SIZE)>>

\* the wall that closes the corridor, in its fifth tile
EndWall == Obstacle(4 * TILE_SIZE + TILE_SIZE \div 2, TILE_SIZE \div 2, TILE_SIZE, TILE_SIZE)

\* a pillar across the third tile
Pillar == Obstacle(2 * TILE_SIZE + TILE_SIZE \div 2, TILE_SIZE \div 2, TILE_SIZE \div 4, TILE_SIZE)

\* a sill along the bottom of the third tile, 8 pixels high: a guard does not
\* fit in the tile, and sees over it
Sill == Obstacle(2 * TILE_SIZE + TILE_SIZE \div 2, 8, TILE_SIZE, 8 * 2)

\* the levels: a guard that patrols the open corridor, one whose route the
\* pillar bars, one without a route, that wanders in front of the pillar, and
\* one that the sill keeps in the first two tiles
Levels ==
    {[patrol_points |-> PatrolRoute, obstacles |-> <<EndWall>>],
     [patrol_points |-> PatrolRoute, obstacles |-> <<EndWall, Pillar>>],
     [patrol_points |-> <<>>, obstacles |-> <<EndWall, Pillar>>],
     [patrol_points |-> PatrolRoute, obstacles |-> <<EndWall, Sill>>]}

\* where the player stands in the corridor: in the middle of the fourth tile,
\* then 30 pixels nearer to the guard, then in the middle of the third tile,
\* then behind the guard's start
PlayerSpots ==
    << <<3 * TILE_SIZE + TILE_SIZE \div 2, TILE_SIZE \div 2>>,
       <<3 * TILE_SIZE + TILE_SIZE \div 2 - 30 * 2, TILE_SIZE \div 2>>,
       <<2 * TILE_SIZE + TILE_SIZE \div 2, TILE_SIZE \div 2>>,
       <<20, TILE_SIZE \div 2>> >>

\* what the random module returns to a wandering guard
RandomDraws ==
    [change : BOOLEAN, angle : {0, 18000}, turn : {9000}]

\* the angles angle_difference is called with: up to two turns either way,
\* and the neighbours of 0 and of 180 degrees
AngleArgs ==
    {-72000, -54000, -36000, -18100, -18000, -17900, -1, 0, 1,
     17900, 18000, 18100, 36000, 54000, 72000}

\* the points a cone is asked about: those a guard looks for, and one at
\* -179 degrees from the origin
ConePoints == PlayerPositions \cup {<<-5729, -100>>}

\* the directions a cone faces
ConeAngles == {0, 1500, 17000, 18000, -18000, -17900}

\* the lengths of a cone
ConeRanges == {100, 6000}

\* the whole turns added to the direction a cone faces
Turns == {-2, -1, 1, 2}

\* the grid find_path is called with on its own
PathGridWidth == 4

PathGridHeight == 4

\* the tile (x, y) filled by a wall
Wall(x, y) ==
    Obstacle(x * TILE_SIZE + TILE_SIZE \div 2, y * TILE_SIZE + TILE_SIZE \div 2,
             TILE_SIZE, TILE_SIZE)

\* the obstacle lists find_path is called with: none; a wall tile; a wall with
\* a gap at the top; a wall from bottom to top; a post of 4 pixels on the
\* border of the tiles (0, 0) and (1, 0); a crate of 8 pixels in the middle of
\* the tile (1, 1), with a wall tile; one block over the whole grid; two wall
\* tiles that leave the tile (0, 0) only its diagonal
PathObstacleLists ==
    {<<>>,
     <<Wall(1, 1)>>,
     <<Wall(1, 0), Wall(1, 1), Wall(1, 2)>>,
     <<Wall(1, 0), Wall(1, 1), Wall(1, 2), Wall(1, 3)>>,
     <<Obstacle(TILE_SIZE, TILE_SIZE \div 2, 4 * 2, 4 * 2)>>,
     <<Obstacle(TILE_SIZE + TILE_SIZE \div 2, TILE_SIZE + TILE_SIZE \div 2, 8 * 2, 8 * 2),
       Wall(2, 2)>>,
     <<Obstacle(2 * TILE_SIZE, 2 * TILE_SIZE, 4 * TILE_SIZE, 4 * TILE_SIZE)>>,
     <<Wall(1, 0), Wall(0, 1)>>}

\* the start and goal positions: the centres of the tiles (0, 0), (1, 1),
\* (2, 0), (3, 0) and (3, 3), a point off the centre of the tile (0, 3), and
\* points right of and left of the grid
PathPositions ==
    {<<64, 64>>, <<192, 192>>, <<320, 64>>, <<448, 64>>, <<448, 448>>,
     <<70, 450>>, <<576, 64>>, <<-200, 64>>}

\* the 16 by 16 grid with one obstacle over the tiles (5, 5) to (5, 10), from
\* the tile (0, 0) to the tile (15, 15)
Scenario ==
    [start |-> <<32 * 2, 32 * 2>>, goal |-> <<992 * 2, 992 * 2>>,
     obstacles |-> <<Obstacle(5 * TILE_SIZE + TILE_SIZE \div 2, 8 * TILE_SIZE,
                              TILE_SIZE, 6 * TILE_SIZE)>>,
     grid_width |-> 16, grid_height |-> 16]

\* a corridor of 8 tiles whose tiles 2 to 7 are under one block, from the
\* tile 0 to each of the tiles 3 to 7
BlockedCorridor ==
    [start : {<<64, 64>>}, goal : {<<tile * TILE_SIZE + 64, 64>> : tile \in 3..7},
     obstacles : {<<Obstacle(5 * TILE_SIZE, TILE_SIZE \div 2, 6 * TILE_SIZE, TILE_SIZE)>>},
     grid_width : {8}, grid_height : {1}]

\* the central vertical divider of the apartment layout, 15 pixels thick on
\* the border of the tile columns 7 and 8, from the tile (7, 4) to the
\* tile (8, 4)
Divider ==
    [start |-> <<480 * 2, 288 * 2>>, goal |-> <<544 * 2, 288 * 2>>,
     obstacles |-> <<Obstacle(512 * 2, 300 * 2, 15 * 2, 400 * 2)>>,
     grid_width |-> 16, grid_height |-> 16]

\* a pillar of 20 pixels in the middle of the tile (x, y)
Post(x, y) ==
    Obstacle(x * TILE_SIZE + TILE_SIZE \div 2, y * TILE_SIZE + TILE_SIZE \div 2, 20 * 2, 20 * 2)

\* a grid of 4 x 2 tiles with pillars in the tiles (1, 1) and (3, 0), from
\* the tile (0, 0) to the tile (3, 1): the route leads along the bottom row
\* and up in the third column
TwoPillars ==
    [start |-> grid_to_world(0, 0, TILE_SIZE), goal |-> grid_to_world(3, 1, TILE_SIZE),
     obstacles |-> <<Post(1, 1), Post(3, 0)>>, grid_width |-> 4, grid_height |-> 2]

\* a grid of 5 x 4 tiles with a wall tile at (1, 1), from the tile (0, 0) to
\* the tile (4, 3)
OneWall ==
    [start |-> grid_to_world(0, 0, TILE_SIZE), goal |-> grid_to_world(4, 3, TILE_SIZE),
     obstacles |-> <<Wall(1, 1)>>, grid_width |-> 5, grid_height |-> 4]

\* a grid of 4 x 5 tiles with wall tiles at (2, 1) and (3, 3), from the tile
\* (2, 0) to the tile (3, 4)
TwoWalls ==
    [start |-> grid_to_world(2, 0, TILE_SIZE), goal |-> grid_to_world(3, 4, TILE_SIZE),
     obstacles |-> <<Wall(2, 1), Wall(3, 3)>>, grid_width |-> 4, grid_height |-> 5]

\* the arguments of find_path called on its own, for an agent of the size of
\* a guard and no max_distance
FindPathArgs ==
    [start : PathPositions, goal : PathPositions, obstacles : PathObstacleLists,
     grid_width : {PathGridWidth}, grid_height : {PathGridHeight}]
    \cup BlockedCorridor \cup {Scenario, Divider, TwoPillars, OneWall, TwoWalls}

\* ------------------------------------------------------------ game_env.py

\* config.ACTIONS (a reserved word here): the direction (dx, dy) of each action
config_ACTIONS ==
    [a \in 0..8 |-> << <<0, 0>>, <<0, 1>>, <<0, -1>>, <<-1, 0>>, <<1, 0>>,
                       <<-1, 1>>, <<1, 1>>, <<-1, -1>>, <<1, -1>> >>[a + 1]]

\* HunterAssassinEnv after reset(), for a level of the given guards
HunterAssassinEnv(p, guards, obs) ==
    [player |-> p, enemies |-> guards, bullets |-> <<>>, obstacles |-> obs,
     episode_step |-> 0, game_started |-> TRUE,
     grid_width |-> GridWidth, grid_height |-> GridHeight, tile_size |-> TILE_SIZE]

\* step, lines 172-190: the step is counted, the action moves the player
execute_action(self, action) ==
    LET counted == [self EXCEPT !.episode_step = self.episode_step + 1]
    IN  IF action \in DOMAIN config_ACTIONS
        THEN [counted EXCEPT
                !.game_started = @ \/ config_ACTIONS[action] # <<0, 0>>,
                !.player = move(@, config_ACTIONS[action][1], config_ACTIONS[action][2],
                                self.obstacles, SCREEN_WIDTH, SCREEN_HEIGHT)]
        ELSE counted

\* step, lines 195-205: the living guards from the i-th on are updated in the
\* order of the list; a bullet that update_ai returns joins the list of bullets
RECURSIVE for_each_enemy(_, _, _)
for_each_enemy(self, i, random) ==
    IF i > Len(self.enemies)
    THEN self
    ELSE IF ~self.enemies[i].alive
    THEN for_each_enemy(self, i + 1, random)
    ELSE LET use(result) ==
                 for_each_enemy(
                     [self EXCEPT !.enemies[i] = result[1],
                                  !.bullets = IF result[2] # None
                                              THEN Append(@, result[2])
                                              ELSE @],
                     i + 1, random)
         IN  use(update_ai(self.enemies[i], self.player, self.obstacles, TickDeltaTime,
                           self.grid_width, self.grid_height, self.tile_size, random))

\* step, lines 193-205
update_enemies(self, random) ==
    IF self.game_started THEN for_each_enemy(self, 1, random) ELSE self

\* step, lines 207-216: every bullet flies on; those that end are removed
update_bullets(self) ==
    LET flown == [i \in 1..Len(self.bullets) |-> bullet_update(self.bullets[i], self.obstacles)]
        RECURSIVE kept(_)
        kept(i) == IF i > Len(flown)
                   THEN <<>>
                   ELSE IF flown[i][2]
                   THEN kept(i + 1)
                   ELSE <<flown[i][1]>> \o kept(i + 1)
    IN  [self EXCEPT !.bullets = kept(1)]

\* step, lines 218-228: the first bullet that hits the living player kills it
check_bullet_hits(self) ==
    LET hitting == {i \in 1..Len(self.bullets) : check_hit_player(self.bullets[i], self.player)}
    IN  IF self.player.alive /\ hitting # {}
        THEN [self EXCEPT !.player = player_die(@),
                          !.bullets[CHOOSE i \in hitting : \A j \in hitting : i <= j].active = FALSE]
        ELSE self

\* step, lines 232-239: an attack under way goes on, and kills its target at
\* the moment the animation deals the damage
deal_damage(self) ==
    LET use(result) ==
            IF /\ result[2]
               /\ result[1].attack_target # None
               /\ self.enemies[result[1].attack_target[1]].alive
            THEN [self EXCEPT !.player = [result[1] EXCEPT !.kills = @ + 1],
                              !.enemies[result[1].attack_target[1]] = die(@)]
            ELSE [self EXCEPT !.player = result[1]]
    IN  use(update_attack(self.player))

\* step, lines 241-247: a player that attacks nobody attacks the first living
\* guard in reach
start_new_attack(self) ==
    LET reach == {i \in 1..Len(self.enemies) :
                     self.enemies[i].alive /\ can_attack(self.player, self.enemies[i])}
    IN  IF ~self.player.is_attacking /\ reach # {}
        THEN [self EXCEPT !.player = LET first == CHOOSE i \in reach : \A j \in reach : i <= j
                                        IN  start_attack(@, first, self.enemies[first])]
        ELSE self

\* step, lines 230-247
update_player_attack(self) ==
    IF self.player.alive THEN start_new_attack(deal_damage(self)) ELSE self

\* step, lines 263-270: the episode is over
done(self) ==
    \/ ~self.player.alive
    \/ \A i \in 1..Len(self.enemies) : ~self.enemies[i].alive
    \/ self.episode_step >= MAX_STEPS_PER_EPISODE

\* HunterAssassinEnv.step with the guards updated before the action moves the
\* player
step_guards_first(self, action, random) ==
    update_player_attack(check_bullet_hits(update_bullets(
        execute_action(update_enemies(self, random), action))))

\* HunterAssassinEnv.step: the environment afterwards
step(self, action, random) ==
    update_player_attack(check_bullet_hits(update_bullets(
        update_enemies(execute_action(self, action), random))))

\* the steps of an episode that are followed
MaxEpisodeSteps == 50

\* the actions the agent takes in the corridor: stay, left
StepActions == {0, 3}

\* a guard on a patrol route draws no random number
NoDraw == [change |-> FALSE, angle |-> 0, turn |-> 9000]

\* the two guards of the corridor: in its first and in its second tile, each
\* with a route of two tiles
CorridorGuards ==
    <<Enemy(EnemyStart[1], EnemyStart[2], PatrolRoute),
      Enemy(grid_to_world(1, 0, TILE_SIZE)[1], grid_to_world(1, 0, TILE_SIZE)[2],
            <<grid_to_world(1, 0, TILE_SIZE), grid_to_world(3, 0, TILE_SIZE)>>)>>

\* ------------------------------------------------------------ actions

\* before any update_ai tick: seen and unseen count the latest consecutive
\* ticks of the living guard on which it saw, or did not see, the player, as
\* far as ENEMY_SHOOT_DELAY and alert_duration + 1; since_shot counts the ticks
\* since the one that returned a bullet, as far as ENEMY_SHOOT_COOLDOWN, and is
\* -1 while there was none
NoTicks == [seen |-> 0, unseen |-> 0, since_shot |-> -1]

\* the record of the ticks after one more update_ai
Ticked(t, alive, can_see, shot) ==
    IF ~alive
    THEN t
    ELSE [seen |-> IF can_see THEN Min(ENEMY_SHOOT_DELAY, t.seen + 1) ELSE 0,
          unseen |-> IF can_see THEN 0 ELSE Min(alert_duration + 1, t.unseen + 1),
          since_shot |-> IF shot THEN 0
                         ELSE IF t.since_shot = -1 THEN -1
                         ELSE Min(ENEMY_SHOOT_COOLDOWN, t.since_shot + 1)]

\* no update has run yet
NoCall == [state |-> PATROL, can_see_player |-> FALSE, called |-> FALSE]

\* a caller runs detection.update_seeing(dt, can_see)
DetectionUpdateSeeing ==
    \E dt \in DetectionDeltaTimes, can_see \in BOOLEAN :
        /\ detection' = update_seeing(detection, dt, can_see)
        /\ UNCHANGED <<env, ticks, loop, gsm_vars, enemy_vars, call_vars>>

\* a caller runs detection.reset()
DetectionReset ==
    /\ detection' = reset(detection)
    /\ UNCHANGED <<env, ticks, loop, gsm_vars, enemy_vars, call_vars>>

\* the guard's owner runs gsm.update(dt, can_see, player_pos, guard_pos)
Update(dt, can_see, player_pos, guard_pos) ==
    /\ can_see \/ gsm.lost_sight_timer + dt <= MaxUnseen
    /\ gsm' = update(gsm, dt, can_see, player_pos, guard_pos)
    /\ last' = [state |-> gsm.state, can_see_player |-> can_see, called |-> TRUE]
    /\ seen_time' = IF can_see /\ seen_time >= 0
                    THEN Min(gsm.detection.threshold, seen_time + dt)
                    ELSE -1
    /\ unseen_time' = IF can_see THEN 0 ELSE unseen_time + dt
    /\ UNCHANGED <<env, ticks, loop, detection, enemy_vars, call_vars>>

GsmUpdate ==
    \E dt \in DeltaTimes, can_see \in BOOLEAN,
       player_pos \in Positions, guard_pos \in GuardPositions :
        Update(dt, can_see, player_pos, guard_pos)

\* the guard checks whether it sees the player (update_ai, line 513)
CheckPlayerVision ==
    /\ enemy' = [enemy EXCEPT !.can_see_player = check_player_vision(enemy, player, obstacles)]
    /\ called' = "check_player_vision"
    /\ UNCHANGED <<env, ticks, loop, detection, gsm_vars, player, obstacles, bullet, call_vars>>

\* the game runs enemy.update_ai(player, obstacles, 1.0, grid_width, grid_height,
\* tile_size) for a tick
EnemyUpdateAi ==
    \E random \in RandomDraws :
        \E result \in {update_ai(enemy, player, obstacles, TickDeltaTime,
                                 GridWidth, GridHeight, TILE_SIZE, random)} :
            /\ enemy' = result[1]
            /\ bullet' = result[2]
            /\ called' = "update_ai"
            /\ UNCHANGED <<env, ticks, loop, detection, gsm_vars, player, obstacles, call_vars>>

\* the same tick of the game, with the record of the ticks kept
EnemyUpdateAiCounted ==
    \E random \in RandomDraws :
        \E result \in {update_ai(enemy, player, obstacles, TickDeltaTime,
                                 GridWidth, GridHeight, TILE_SIZE, random)} :
            /\ enemy' = result[1]
            /\ bullet' = result[2]
            /\ ticks' = Ticked(ticks, enemy.alive, result[1].can_see_player, result[2] # None)
            /\ called' = "update_ai"
            /\ UNCHANGED <<env, loop, detection, gsm_vars, player, obstacles, call_vars>>

\* the player, seen by the guard, leaves its first spot for a later one
PlayerMove ==
    \E j \in 2..Len(PlayerSpots) :
        /\ enemy.can_see_player
        /\ <<player.center_x, player.center_y>> = PlayerSpots[1]
        /\ player' = [player EXCEPT !.center_x = PlayerSpots[j][1],
                                    !.center_y = PlayerSpots[j][2]]
        /\ UNCHANGED <<env, ticks, loop, detection, gsm_vars, enemy, obstacles, bullet, called, call_vars>>

\* Player.die: the bullet that the guard fired hits the player
PlayerDie ==
    /\ player.alive
    /\ bullet # None
    /\ player' = [player EXCEPT !.alive = FALSE]
    /\ UNCHANGED <<env, ticks, loop, detection, gsm_vars, enemy, obstacles, bullet, called, call_vars>>

\* Enemy.die: the player, within PLAYER_MELEE_RANGE of the guard, kills it
EnemyDie ==
    /\ enemy.alive
    /\ player.alive
    /\ get_distance_squared(player.center_x, player.center_y,
                            enemy.center_x, enemy.center_y)
           < PLAYER_MELEE_RANGE * PLAYER_MELEE_RANGE
    /\ enemy' = die(enemy)
    /\ UNCHANGED <<env, ticks, loop, detection, gsm_vars, player, obstacles, bullet, called, call_vars>>

\* a caller runs angle_difference(angle1, angle2)
AngleDifference ==
    \E angle1 \in AngleArgs, angle2 \in AngleArgs :
        /\ args' = [angle1 |-> angle1, angle2 |-> angle2]
        /\ returned' = angle_difference(angle1, angle2)
        /\ called' = "angle_difference"
        /\ UNCHANGED <<env, ticks, loop, detection, gsm_vars, enemy, player, obstacles, bullet>>

\* a caller runs is_point_in_cone(point_x, point_y, cone_x, cone_y, cone_angle,
\* cone_fov, max_distance)
IsPointInCone ==
    \E point \in ConePoints, cone \in EnemyPositions, cone_angle \in ConeAngles,
       cone_fov \in Fovs, max_distance \in ConeRanges :
        /\ args' = [point_x |-> point[1], point_y |-> point[2],
                    cone_x |-> cone[1], cone_y |-> cone[2],
                    cone_angle |-> cone_angle, cone_fov |-> cone_fov,
                    max_distance |-> max_distance]
        /\ returned' = is_point_in_cone(point[1], point[2], cone[1], cone[2],
                                        cone_angle, cone_fov, max_distance)
        /\ called' = "is_point_in_cone"
        /\ UNCHANGED <<env, ticks, loop, detection, gsm_vars, enemy, player, obstacles, bullet>>

\* a caller runs find_path(start_x, start_y, goal_x, goal_y, obstacles,
\* tile_size, grid_width, grid_height, player_radius)
FindPath ==
    /\ args # None
    /\ returned' = find_path(args.start[1], args.start[2], args.goal[1], args.goal[2],
                             args.obstacles, TILE_SIZE,
                             args.grid_width, args.grid_height, GUARD_SIZE, None)
    /\ called' = "find_path"
    /\ UNCHANGED <<env, ticks, loop, detection, gsm_vars, enemy, player, obstacles, bullet, args>>

\* the game runs env.step(action) while the episode is not over
Step ==
    \E action \in StepActions :
        /\ ~done(env)
        /\ env.episode_step < MaxEpisodeSteps
        /\ env' = step(env, action, NoDraw)
        /\ args' = [function |-> "step", action |-> action]
        /\ returned' = done(env')
        /\ called' = "step"
        /\ UNCHANGED <<ticks, loop, detection, gsm_vars, enemy, player, obstacles, bullet>>

\* ------------------------------------------------------------ specifications

\* a guard standing alone in an empty level, before anything ran
InitEnemy ==
    /\ enemy = Enemy(0, 0, <<>>)
    /\ player = Player(50, 10)
    /\ obstacles = <<>>
    /\ bullet = None
    /\ env = None
    /\ ticks = NoTicks
    /\ loop = None
    /\ called = ""
    /\ args = None
    /\ returned = None

InitGsm ==
    /\ gsm \in {GuardStateMachine(th) : th \in Thresholds}
    /\ last = NoCall
    /\ seen_time = 0
    /\ unseen_time = 0

\* a DetectionLevel on its own, under any sequence of its two mutators
InitDetection ==
    /\ detection \in {DetectionLevel(th) : th \in DetectionThresholds}
    /\ gsm = GuardStateMachine(detection_threshold)
    /\ last = NoCall
    /\ seen_time = 0
    /\ unseen_time = 0
    /\ InitEnemy

NextDetection ==
    \/ DetectionUpdateSeeing
    \/ DetectionReset

SpecDetection == InitDetection /\ [][NextDetection]_vars

\* a GuardStateMachine under any sequence of updates
Init ==
    /\ detection = DetectionLevel(detection_threshold)
    /\ InitGsm
    /\ InitEnemy

Next ==
    GsmUpdate

Spec == Init /\ [][Next]_vars

\* the vision check of a guard, applied to any pose, player and obstacle list
InitVision ==
    /\ detection = DetectionLevel(detection_threshold)
    /\ gsm = GuardStateMachine(detection_threshold)
    /\ last = NoCall
    /\ seen_time = 0
    /\ unseen_time = 0
    /\ \E pos \in EnemyPositions, angle \in VisionAngles, fov \in Fovs, range \in VisionRanges :
           enemy = [Enemy(pos[1], pos[2], <<>>) EXCEPT !.vision_angle = angle,
                                                 !.fov = fov,
                                                 !.vision_range = range]
    /\ \E pos \in PlayerPositions, alive \in BOOLEAN :
           player = [Player(pos[1], pos[2]) EXCEPT !.alive = alive]
    /\ obstacles \in ObstacleLists
    /\ bullet = None
    /\ env = None
    /\ ticks = NoTicks
    /\ loop = None
    /\ called = ""
    /\ args = None
    /\ returned = None

NextVision ==
    CheckPlayerVision

SpecVision == InitVision /\ [][NextVision]_vars

\* a guard in the corridor, ticked by the game, with a player that moves and
\* dies; no GuardStateMachine is attached to an Enemy, so gsm stays as built
InitCorridor ==
    /\ detection = DetectionLevel(detection_threshold)
    /\ gsm = GuardStateMachine(detection_threshold)
    /\ last = NoCall
    /\ seen_time = 0
    /\ unseen_time = 0
    /\ \E level \in Levels :
           /\ enemy = Enemy(EnemyStart[1], EnemyStart[2], level.patrol_points)
           /\ obstacles = level.obstacles
    /\ \E i \in 1..Len(PlayerSpots) : player = Player(PlayerSpots[i][1], PlayerSpots[i][2])
    /\ bullet = None
    /\ env = None
    /\ ticks = NoTicks
    /\ loop = None
    /\ called = ""
    /\ args = None
    /\ returned = None

NextEnemy ==
    \/ EnemyUpdateAi
    \/ PlayerMove
    \/ PlayerDie
    \/ EnemyDie

SpecEnemy == InitCorridor /\ [][NextEnemy]_vars

\* the angle functions of utils.py, called on their own with any arguments
InitAngle ==
    /\ detection = DetectionLevel(detection_threshold)
    /\ gsm = GuardStateMachine(detection_threshold)
    /\ last = NoCall
    /\ seen_time = 0
    /\ unseen_time = 0
    /\ InitEnemy

NextAngle ==
    \/ AngleDifference
    \/ IsPointInCone

SpecAngle == InitAngle /\ [][NextAngle]_vars

\* find_path called on its own with any of its arguments
InitPath ==
    /\ detection = DetectionLevel(detection_threshold)
    /\ gsm = GuardStateMachine(detection_threshold)
    /\ last = NoCall
    /\ seen_time = 0
    /\ unseen_time = 0
    /\ enemy = Enemy(0, 0, <<>>)
    /\ player = Player(50, 10)
    /\ obstacles = <<>>
    /\ bullet = None
    /\ env = None
    /\ ticks = NoTicks
    /\ loop = None
    /\ called = ""
    /\ args \in FindPathArgs
    /\ returned = None

NextPath ==
    FindPath

SpecPath == InitPath /\ [][NextPath]_vars

\* find_path, lines 178-203: the tiles of the start and of the goal are
\* checked and the locals of the search are set up; pc is "while" when the
\* while loop is to run and "return" when find_path has returned; repopped
\* records that the loop popped a node of a tile that was in closed_set
find_path_begin(start_x, start_y, goal_x, goal_y, obs, tile_size, grid_width, grid_height, player_radius) ==
    LET start_grid == world_to_grid(start_x, start_y, tile_size)
        goal == world_to_grid(goal_x, goal_y, tile_size)
        begin(goal_grid) ==
            IF \/ ~is_walkable_grid(start_grid[1], start_grid[2], obs, tile_size, player_radius)
               \/ goal_grid = None
            THEN [pc |-> "return", found |-> None, goal_grid |-> goal_grid,
                  open_set |-> <<>>, closed_set |-> {}, g_scores |-> <<>>,
                  repopped |-> FALSE]
            ELSE [pc |-> "while", found |-> None, goal_grid |-> goal_grid,
                  open_set |-> heappush(<<>>, Node(start_grid[1], start_grid[2], 0,
                                                   heuristic(start_grid[1], start_grid[2],
                                                             goal_grid[1], goal_grid[2]),
                                                   None)),
                  closed_set |-> {}, g_scores |-> start_grid :> 0,
                  repopped |-> FALSE]
    IN  begin(IF is_walkable_grid(goal[1], goal[2], obs, tile_size, player_radius)
              THEN goal
              ELSE find_nearest_walkable(goal[1], goal[2], obs, tile_size,
                                         grid_width, grid_height, player_radius, 5))

\* a round of the while loop that leaves the node it pops in open_set
while_iteration_keeps_popped(self, search) ==
    LET expanded(current, closed, st) ==
            [self EXCEPT !.open_set = st.open_set, !.g_scores = st.g_scores,
                         !.closed_set = closed,
                         !.repopped = @ \/ <<current.x, current.y>> \in self.closed_set]
        expand(current, rest, closed) ==
            IF current.x = search.goal_grid[1] /\ current.y = search.goal_grid[2]
            THEN [self EXCEPT !.pc = "return", !.found = current, !.open_set = rest]
            ELSE expanded(current, closed,
                          for_each_neighbor(
                              get_neighbors(current.x, current.y,
                                            search.grid_width, search.grid_height,
                                            search.obstacles, search.tile_size,
                                            search.player_radius),
                              [open_set |-> self.open_set, g_scores |-> self.g_scores],
                              current, closed, search))
        visit(popped) ==
            expand(popped[1], popped[2],
                   self.closed_set \cup {<<popped[1].x, popped[1].y>>})
    IN  visit(heappop(self.open_set))

\* find_path, lines 205-246: one round of the while loop with a node in
\* open_set: the node of the least f is popped; at the goal tile the loop
\* ends, otherwise the tile is closed and the neighbours are pushed
while_iteration(self, search) ==
    LET expanded(current, closed, st) ==
            [self EXCEPT !.open_set = st.open_set, !.g_scores = st.g_scores,
                         !.closed_set = closed,
                         !.repopped = @ \/ <<current.x, current.y>> \in self.closed_set]
        expand(current, rest, closed) ==
            IF current.x = search.goal_grid[1] /\ current.y = search.goal_grid[2]
            THEN [self EXCEPT !.pc = "return", !.found = current, !.open_set = rest]
            ELSE expanded(current, closed,
                          for_each_neighbor(
                              get_neighbors(current.x, current.y,
                                            search.grid_width, search.grid_height,
                                            search.obstacles, search.tile_size,
                                            search.player_radius),
                              [open_set |-> rest, g_scores |-> self.g_scores],
                              current, closed, search))
        visit(popped) ==
            expand(popped[1], popped[2],
                   self.closed_set \cup {<<popped[1].x, popped[1].y>>})
    IN  visit(heappop(self.open_set))

\* find_path is called: it checks the tiles and sets up the search
FindPathEnter ==
    /\ args # None
    /\ loop = None
    /\ \E begun \in {find_path_begin(args.start[1], args.start[2],
                                      args.goal[1], args.goal[2],
                                      args.obstacles, TILE_SIZE,
                                      args.grid_width, args.grid_height, GUARD_SIZE)} :
           /\ loop' = begun
           /\ called' = IF begun.pc = "return" THEN "find_path" ELSE called
    /\ UNCHANGED <<env, ticks, detection, gsm_vars, enemy, player, obstacles, bullet, args, returned>>

\* find_path runs one round of its while loop; a round that pops the goal
\* tile returns the simplified path
FindPathIterate ==
    /\ loop # None
    /\ loop.pc = "while"
    /\ loop.open_set # <<>>
    /\ \E round \in {while_iteration(loop, [goal_grid |-> loop.goal_grid,
                                             obstacles |-> args.obstacles,
                                             tile_size |-> TILE_SIZE,
                                             grid_width |-> args.grid_width,
                                             grid_height |-> args.grid_height,
                                             player_radius |-> GUARD_SIZE,
                                             max_distance |-> None])} :
           /\ loop' = round
           /\ returned' = IF round.pc = "return"
                          THEN simplify_path(reconstruct_path(round.found, TILE_SIZE),
                                             args.obstacles, TILE_SIZE)
                          ELSE returned
           /\ called' = IF round.pc = "return" THEN "find_path" ELSE called
    /\ UNCHANGED <<env, ticks, detection, gsm_vars, enemy, player, obstacles, bullet, args>>

\* find_path finds open_set empty: the while loop ends and None is returned
FindPathExhausted ==
    /\ loop # None
    /\ loop.pc = "while"
    /\ loop.open_set = <<>>
    /\ loop' = [loop EXCEPT !.pc = "return"]
    /\ returned' = None
    /\ called' = "find_path"
    /\ UNCHANGED <<env, ticks, detection, gsm_vars, enemy, player, obstacles, bullet, args>>

NextSearch ==
    FindPathEnter \/ FindPathIterate \/ FindPathExhausted

SpecSearch == InitPath /\ [][NextSearch]_vars

\* ------------------------------------------------------------ properties

\* C1: the value of a DetectionLevel stays within [0,1] (0 and threshold in the
\* model's units) after any sequence of update_seeing and reset calls.
C1_ValueInUnitInterval ==
    0 <= detection.value /\ detection.value <= detection.threshold

\* a DetectionLevel driven to 1.0 by an update that overshoots it
C1_Witness ==
    detection.value = detection.threshold /\ detection.threshold = 50

C3_PatrolUpdate ==
    \A dt \in DeltaTimes, cs \in BOOLEAN, pp \in Positions, gp \in GuardPositions :
        gsm.state = PATROL =>
            LET n == update(gsm, dt, cs, pp, gp)
                v == n.detection.value
                th == n.detection.threshold
            IN  /\ n.state = SUSPICIOUS <=> (2 * th <= 10 * v /\ 10 * v < 5 * th)
                /\ n.state = ALERTED <=> v >= th
                /\ n.state = PATROL <=> (10 * v < 2 * th \/ (5 * th <= 10 * v /\ v < th))
                /\ n.detection = update_seeing(gsm.detection, dt, cs)
                /\ n.state = SUSPICIOUS =>
                      n.suspicious_timer = 0 /\ n.investigation_pos = pp

\* Suspicious entered from Patrol at detection exactly 0.2
C3_Witness ==
    /\ last.called /\ last.state = PATROL
    /\ gsm.state = SUSPICIOUS
    /\ 10 * gsm.detection.value = 2 * gsm.detection.threshold
    /\ gsm.suspicious_timer = 0
    /\ gsm.investigation_pos \in Positions

\* C4: an update in Suspicious adds delta_time to suspicious_timer, then goes to
\* Alerted if detection >= 1.0, else to Patrol exactly when the timer has reached
\* suspicious_duration and the target is not visible (detection 0, timer 0,
\* investigation_pos cleared), else stays Suspicious.
C4_SuspiciousUpdate ==
    \A dt \in DeltaTimes, cs \in BOOLEAN, pp \in Positions, gp \in GuardPositions :
        gsm.state = SUSPICIOUS =>
            LET n == update(gsm, dt, cs, pp, gp)
                d == update_seeing(gsm.detection, dt, cs)
                timer == gsm.suspicious_timer + dt
                alert == d.value >= d.threshold
                timeout == ~alert /\ timer >= suspicious_duration /\ ~cs
            IN  /\ n.state = ALERTED <=> alert
                /\ n.state = PATROL <=> timeout
                /\ n.state = SUSPICIOUS <=> (~alert /\ ~timeout)
                /\ timeout => /\ n.detection.value = 0
                              /\ n.suspicious_timer = 0
                              /\ n.investigation_pos = None
                /\ n.state = SUSPICIOUS =>
                      n.suspicious_timer = timer /\ n.detection = d
                /\ cs => n.state # PATROL

\* a Suspicious guard timed out to Patrol on an update that did not see the target
C4_Witness ==
    /\ last.called /\ last.state = SUSPICIOUS /\ ~last.can_see_player
    /\ gsm.state = PATROL
    /\ gsm.detection.value = 0
    /\ gsm.investigation_pos = None

C6_SearchingUpdate ==
    \A dt \in DeltaTimes, cs \in BOOLEAN, pp \in Positions, gp \in GuardPositions :
        gsm.state = SEARCHING =>
            LET n == update(gsm, dt, cs, pp, gp)
                d == update_seeing(gsm.detection, dt, cs)
                timer == gsm.search_timer + dt
                alert == d.value >= d.threshold
                timeout == ~alert /\ timer >= search_duration
            IN  /\ n.state = ALERTED <=> alert
                /\ n.state = PATROL <=> timeout
                /\ n.state = SEARCHING <=> (~alert /\ ~timeout)
                /\ timeout => /\ n.detection.value = 0
                              /\ n.search_timer = 0
                              /\ n.last_known_position = None
                /\ n.state = SEARCHING =>
                      n.search_timer = timer /\ n.detection = d

\* a search given up: back in Patrol with detection 0 and no last known position
C6_Witness ==
    /\ last.called /\ last.state = SEARCHING
    /\ gsm.state = PATROL
    /\ gsm.detection.value = 0
    /\ gsm.search_timer = 0
    /\ gsm.last_known_position = None

\* C7: the guard controller chases only on ticks where its awareness state is
\* Alerted, that is only once its detection level has reached 1.0 through the
\* awareness state machine; a guard whose detection is below 1.0 does not chase.
C7_ChasesOnlyWhenAlerted ==
    enemy.state = "chase" =>
        should_chase(gsm) /\ is_alerted(gsm.detection)

\* C8: get_target_position is investigation_pos in Suspicious, last_known_position
\* in Searching and None in Patrol and Alerted, and in Suspicious and Searching it
\* is a position: investigation_pos is set whenever the guard is Suspicious,
\* last_known_position whenever it is Alerted or Searching.
C8_TargetPosition ==
    /\ gsm.state = SUSPICIOUS =>
          /\ get_target_position(gsm) = gsm.investigation_pos
          /\ gsm.investigation_pos \in Positions
    /\ gsm.state = SEARCHING =>
          /\ get_target_position(gsm) = gsm.last_known_position
          /\ gsm.last_known_position \in Positions
    /\ gsm.state \in {PATROL, ALERTED} => get_target_position(gsm) = None
    /\ gsm.state = ALERTED => gsm.last_known_position \in Positions

\* a Searching guard whose target is a last known position other than the
\* position it investigated earlier
C8_Witness ==
    /\ gsm.state = SEARCHING
    /\ get_target_position(gsm) \in Positions
    /\ gsm.investigation_pos \in Positions
    /\ get_target_position(gsm) # gsm.investigation_pos

\* the fields of a GuardStateMachine other than the two stored positions
Awareness(sm) ==
    <<sm.state, sm.detection, sm.suspicious_timer, sm.search_timer, sm.lost_sight_timer>>

\* C9: the state, detection value and timers after an update are a function of
\* the state, detection value, timers, delta_time and can_see_player alone: an
\* update that differs only in player_pos, guard_pos and the stored positions
\* ends in the same state with the same detection value and timers.
C9_PositionsDoNotDecide ==
    \A dt \in DeltaTimes, cs \in BOOLEAN :
        LET p0 == CHOOSE p \in Positions : TRUE
            g0 == CHOOSE g \in GuardPositions : TRUE
            base == Awareness(update(gsm, dt, cs, p0, g0))
        IN  \A pp, gp \in Positions, lkp, inv \in {None, p0} :
                Awareness(update([gsm EXCEPT !.last_known_position = lkp,
                                             !.investigation_pos = inv],
                                 dt, cs, pp, gp)) = base

\* a Searching guard with a last known position, where the guard's own position
\* could matter
C9_Witness ==
    /\ last.called /\ last.state = SEARCHING
    /\ gsm.state = SEARCHING
    /\ gsm.search_timer > 0
    /\ gsm.last_known_position \in Positions

\* the angle between two directions, as the least |angle2 - angle1 + 360 k|
AngularOffset(angle1, angle2) ==
    LET offsets == {Abs(angle2 - angle1 + 36000 * k) : k \in -2..2}
    IN  CHOOSE a \in offsets : \A b \in offsets : a <= b

\* the target within the range of the guard and within half the field of view
\* of its facing
InCone(self, p) ==
    /\ get_distance_squared(self.center_x, self.center_y, p.center_x, p.center_y)
           <= self.vision_range * self.vision_range
    /\ 2 * AngularOffset(self.vision_angle,
                         get_angle_to_point(self.center_x, self.center_y,
                                            p.center_x, p.center_y)) <= self.fov

\* the observer of the example: at (0, 0), facing 0, fov 60, range 100
Observer ==
    [Enemy(0, 0, <<>>) EXCEPT !.vision_angle = 0, !.fov = 6000, !.vision_range = 100]

\* C10: the visibility check is true exactly when the target is alive, inside
\* the vision cone (distance <= range and angular offset <= fov / 2) and in line
\* of sight; a target outside the cone is not visible whatever the obstacles.
\* The observer at (0, 0) facing 0 with fov 60 and range 100 sees a target at
\* (50, 10) when there are no obstacles and never sees a target at (50, 80).
C10_VisibilityCheck ==
    /\ called = "check_player_vision" =>
          /\ enemy.can_see_player <=>
                /\ player.alive
                /\ InCone(enemy, player)
                /\ has_line_of_sight(enemy.center_x, enemy.center_y,
                                     player.center_x, player.center_y, obstacles)
          /\ ~InCone(enemy, player) =>
                \A obs \in ObstacleLists : ~check_player_vision(enemy, player, obs)
    /\ check_player_vision(Observer, Player(50, 10), <<>>)
    /\ \A obs \in ObstacleLists : ~check_player_vision(Observer, Player(50, 80), obs)

\* a guard that sees the player past an obstacle that does not block the view
C10_Witness ==
    /\ called = "check_player_vision"
    /\ enemy.can_see_player
    /\ obstacles # <<>>

\* C11: is_point_in_cone gives the same answer when the facing angle is
\* replaced by the facing angle plus any multiple of 360 degrees, and
\* angle_difference returns a value in [-180, 180] that is congruent to
\* angle2 - angle1 modulo 360.
C11_WrapAround ==
    /\ called = "angle_difference" =>
          /\ -18000 <= returned /\ returned <= 18000
          /\ (returned - (args.angle2 - args.angle1)) % 36000 = 0
    /\ called = "is_point_in_cone" =>
          \A k \in Turns :
              returned = is_point_in_cone(args.point_x, args.point_y,
                                          args.cone_x, args.cone_y,
                                          args.cone_angle + k * 36000,
                                          args.cone_fov, args.max_distance)

\* the point at -179 degrees is in the narrow cone that faces 180 degrees: the
\* difference wraps from -359 to 1 degree
C11_Witness ==
    /\ called = "is_point_in_cone"
    /\ returned
    /\ args.cone_angle = 18000
    /\ args.cone_fov = GUARD_VISION_ANGLE
    /\ args.point_x = -5729

\* the node on which the search of the last find_path ended, None when it
\* found no route
GoalNode ==
    find_goal_node(args.start[1], args.start[2], args.goal[1], args.goal[2],
                   args.obstacles, TILE_SIZE, args.grid_width, args.grid_height,
                   GUARD_SIZE, None)

RECURSIVE NodeCells(_)
\* the tiles of a node and of its ancestors, the oldest first
NodeCells(node) ==
    IF node = None THEN <<>> ELSE Append(NodeCells(node.parent), <<node.x, node.y>>)

\* the tiles of the path that the last find_path reconstructed; empty when
\* the search found none
RawCells == NodeCells(GoalNode)

\* the tile centres of that path, before find_path simplified it
RawPath == reconstruct_path(GoalNode, TILE_SIZE)

\* the tile a point lies in
CellOf(point) == world_to_grid(point[1], point[2], TILE_SIZE)

\* the tile is inside the grid of the last find_path
InGrid(cell) ==
    /\ 0 <= cell[1] /\ cell[1] < args.grid_width
    /\ 0 <= cell[2] /\ cell[2] < args.grid_height

\* a guard fits in the tile, among the obstacles of the last find_path
Walkable(cell) ==
    is_walkable_grid(cell[1], cell[2], args.obstacles, TILE_SIZE, GUARD_SIZE)

\* the step from one tile to another is to one of the 8 tiles around it, and a
\* diagonal step has both tiles beside it inside the grid and walkable
LegalStep(from, to) ==
    LET dx == to[1] - from[1]
        dy == to[2] - from[2]
    IN  /\ dx \in -1..1 /\ dy \in -1..1 /\ <<dx, dy>> # <<0, 0>>
        /\ dx # 0 /\ dy # 0 =>
              /\ InGrid(<<from[1] + dx, from[2]>>) /\ Walkable(<<from[1] + dx, from[2]>>)
              /\ InGrid(<<from[1], from[2] + dy>>) /\ Walkable(<<from[1], from[2] + dy>>)

\* C12: a diagonal step of the search is taken only if both adjacent cardinal
\* tiles are inside the grid and walkable: the neighbours of every tile of the
\* grid are legal steps, and on the path that find_path reconstructs every
\* tile is walkable and a legal step away from the tile before it.
C12_NoCornerCutting ==
    called = "find_path" =>
        /\ \A x \in 0..(args.grid_width - 1), y \in 0..(args.grid_height - 1) :
               LET neighbors == get_neighbors(x, y, args.grid_width, args.grid_height,
                                              args.obstacles, TILE_SIZE, GUARD_SIZE)
               IN  \A i \in 1..Len(neighbors) :
                       LegalStep(<<x, y>>, <<neighbors[i][1], neighbors[i][2]>>)
        /\ \A i \in 1..Len(RawCells) :
               /\ Walkable(RawCells[i])
               /\ i > 1 => LegalStep(RawCells[i - 1], RawCells[i])

\* a path around a wall tile that holds a diagonal step and, next to the wall,
\* a cardinal step
C12_Witness ==
    /\ called = "find_path"
    /\ args.obstacles = <<Wall(1, 1)>>
    /\ \E i \in 2..Len(RawPath) :
           /\ RawPath[i][1] # RawPath[i - 1][1]
           /\ RawPath[i][2] # RawPath[i - 1][2]
    /\ \E i \in 2..Len(RawPath) :
           \/ RawPath[i][1] = RawPath[i - 1][1]
           \/ RawPath[i][2] = RawPath[i - 1][2]

\* the tile of the plane that holds a point
TileAt(point) == <<point[1] \div TILE_SIZE, point[2] \div TILE_SIZE>>

\* z component of the cross product of q - p and c - p
Cross(p, q, c) == (q[1] - p[1]) * (c[2] - p[2]) - (q[2] - p[2]) * (c[1] - p[1])

\* the segment from p to q has a point strictly inside the rectangle o: their
\* extents overlap in x and in y and the corners of o are not all on one side
\* of the line through p and q
SegmentCrosses(p, q, o) ==
    LET corners == {<<left(o), bottom(o)>>, <<left(o), top(o)>>,
                    <<right(o), bottom(o)>>, <<right(o), top(o)>>}
    IN  /\ Min(p[1], q[1]) < right(o) /\ Max(p[1], q[1]) > left(o)
        /\ Min(p[2], q[2]) < top(o) /\ Max(p[2], q[2]) > bottom(o)
        /\ \/ p = q
           \/ /\ \E c \in corners : Cross(p, q, c) > 0
              /\ \E c \in corners : Cross(p, q, c) < 0

\* C13: every path find_path returns avoids the obstacles: no straight
\* segment between consecutive returned waypoints passes through an obstacle
\* rectangle, and no returned waypoint lies in a tile that is not walkable.
C13_PathAvoidsObstacles ==
    called = "find_path" /\ returned # None =>
        /\ \A i \in 1..Len(returned) : Walkable(TileAt(returned[i]))
        /\ \A i \in 2..Len(returned), j \in 1..Len(args.obstacles) :
               ~SegmentCrosses(returned[i - 1], returned[i], args.obstacles[j])

\* the tiles of the start and of the goal position of the last find_path
StartCell == CellOf(args.start)
GoalCell == CellOf(args.goal)

\* the tiles of the grid
GridCells == (0..(args.grid_width - 1)) \X (0..(args.grid_height - 1))

\* the tile the search heads for: the goal tile, or the tile that stands in
\* for it when it is not walkable, None when there is none
Target ==
    IF Walkable(GoalCell)
    THEN GoalCell
    ELSE find_nearest_walkable(GoalCell[1], GoalCell[2], args.obstacles, TILE_SIZE,
                               args.grid_width, args.grid_height, GUARD_SIZE, 5)

\* the 8 tiles around a tile
Around(cell) ==
    {<<cell[1] + dx, cell[2] + dy>> : dx \in -1..1, dy \in -1..1} \ {cell}

RECURSIVE Flood(_, _)
\* the tiles that legal steps over walkable tiles of the grid reach from the
\* tiles of seen, of which those of frontier are yet to be left
Flood(seen, frontier) ==
    LET grown(more) == IF more = {} THEN seen ELSE Flood(seen \cup more, more)
    IN  grown({b \in UNION {Around(a) : a \in frontier} \ seen :
                  /\ InGrid(b) /\ Walkable(b)
                  /\ \E a \in frontier : LegalStep(a, b)})

\* find_path has no path to give: the start tile is not walkable, or no
\* walkable tile stands in for the goal, or no route leads to the target
NoRoute ==
    \/ ~Walkable(StartCell)
    \/ Target = None
    \/ Target \notin Flood({StartCell}, {StartCell})

Ring(r) ==
    {c \in GridCells :
        /\ Walkable(c)
        /\ Max(Abs(c[1] - GoalCell[1]), Abs(c[2] - GoalCell[2])) = r}

\* C15: when the goal tile is not walkable, find_path heads for a walkable
\* tile of the grid on the smallest square ring of radius 1 to 5 around the
\* goal tile that holds one, so that no walkable tile of the grid is on a
\* nearer ring, and the path it returns ends in the centre of that tile;
\* when the rings of radius 1 to 5 hold no walkable tile of the grid, find_path
\* returns None.
C15_GoalSnapping ==
    called = "find_path" /\ Walkable(StartCell) /\ ~Walkable(GoalCell) =>
        IF \A r \in 1..5 : Ring(r) = {}
        THEN Target = None /\ returned = None
        ELSE /\ \E r \in 1..5 : Target \in Ring(r) /\ \A nearer \in 1..(r - 1) : Ring(nearer) = {}
             /\ returned # None =>
                   /\ RawCells[Len(RawCells)] = Target
                   /\ returned[Len(returned)] = grid_to_world(Target[1], Target[2], TILE_SIZE)

\* the goal is under the block of the corridor, the rings of radius 1 and 2
\* around it hold no walkable tile, and the path ends in the tile of the ring
\* of radius 3
C15_Witness ==
    /\ called = "find_path"
    /\ returned # None
    /\ ~Walkable(GoalCell)
    /\ Ring(1) = {} /\ Ring(2) = {} /\ Ring(3) # {}
    /\ CellOf(returned[Len(returned)]) \in Ring(3)

RECURSIVE IsSubsequence(_, _)
\* the elements of sub are elements of seq, in the order of seq
IsSubsequence(sub, seq) ==
    IF sub = <<>> THEN TRUE
    ELSE IF seq = <<>> THEN FALSE
    ELSE IF Head(sub) = Head(seq) THEN IsSubsequence(Tail(sub), Tail(seq))
    ELSE IsSubsequence(sub, Tail(seq))

C17_Scenario ==
    called = "find_path" /\ args = Scenario =>
        /\ returned # None
        /\ Len(returned) >= 1
        /\ Len(returned) < 6
        /\ \A i \in 1..Len(RawCells) :
               ~(RawCells[i][1] = 5 /\ RawCells[i][2] \in 5..10)
        /\ \A i \in 1..Len(returned) :
               ~(TileAt(returned[i])[1] = 5 /\ TileAt(returned[i])[2] \in 5..10)
        /\ \A i \in 2..Len(returned) :
               ~SegmentCrosses(returned[i - 1], returned[i],
                               Obstacle(5 * TILE_SIZE + TILE_SIZE \div 2, 8 * TILE_SIZE,
                                        TILE_SIZE, 6 * TILE_SIZE))

\* the path of the scenario: from (32, 32) by (480, 352), below the
\* obstacle and right of it, to (992, 992)
C17_Witness ==
    /\ called = "find_path"
    /\ args = Scenario
    /\ returned = <<<<32 * 2, 32 * 2>>, <<480 * 2, 352 * 2>>, <<992 * 2, 992 * 2>>>>

\* C18: on a grid without obstacles find_path between two tiles of the grid
\* returns a path without zig-zag: after the simplification it is the direct
\* segment from the centre of the start tile to the centre of the goal tile,
\* at most two waypoints, so that its length is the straight-line distance.
C18_OpenGridDirect ==
    called = "find_path" /\ args.obstacles = <<>> /\ InGrid(StartCell) /\ InGrid(GoalCell) =>
        /\ returned # None
        /\ Len(returned) \in 1..2
        /\ returned[1] = grid_to_world(StartCell[1], StartCell[2], TILE_SIZE)
        /\ returned[Len(returned)] = grid_to_world(GoalCell[1], GoalCell[2], TILE_SIZE)
        /\ Len(returned) = 1 <=> StartCell = GoalCell

\* from the tile (1, 1) to the tile (3, 0) of the open grid: the search
\* passes three tiles that are not in line, the result is the two ends
C18_Witness ==
    /\ called = "find_path"
    /\ args.obstacles = <<>>
    /\ StartCell = <<1, 1>> /\ GoalCell = <<3, 0>>
    /\ Len(RawPath) = 3
    /\ Cross(RawPath[1], RawPath[2], RawPath[3]) # 0
    /\ Len(returned) = 2

\* a step of update_ai on a living guard
UpdateAiStep == enemy.alive /\ enemy'.alive /\ enemy' # enemy

\* before the tick the guard has no path or no target
NoPathOrTarget == enemy.target_position = None \/ enemy.path_waypoints = <<>>

\* before the tick the player stands more than 30 pixels from the goal for
\* which the guard's path was computed
TargetMoved ==
    /\ enemy.target_position # None
    /\ get_distance_squared(player.center_x, player.center_y,
                            enemy.target_position[1], enemy.target_position[2])
           > (30 * 2) * (30 * 2)

\* the tick is the 30th after the one that last started the interval
IntervalElapsed == enemy.path_recalc_timer <= 1

\* the tick leaves the path and its goal as they are, and the guard at the
\* same waypoint or a later one
PathKept ==
    /\ enemy'.path_waypoints = enemy.path_waypoints
    /\ enemy'.target_position = enemy.target_position
    /\ enemy'.current_waypoint_idx >= enemy.current_waypoint_idx

\* the guard stands within movement_threshold of the last waypoint of its
\* path, and the tick drops the path without moving the guard
PathFinished ==
    /\ enemy.path_waypoints # <<>>
    /\ get_distance_squared(enemy.center_x, enemy.center_y,
                            enemy.path_waypoints[Len(enemy.path_waypoints)][1],
                            enemy.path_waypoints[Len(enemy.path_waypoints)][2])
           < movement_threshold * movement_threshold
    /\ enemy'.path_waypoints = <<>>
    /\ enemy'.target_position = None
    /\ enemy'.center_x = enemy.center_x
    /\ enemy'.center_y = enemy.center_y

\* C19: while the guard chases, a tick asks find_path for a fresh path
\* exactly when the guard has no path or target, or the player is more than
\* 30 units from the goal of the current path, or the interval of 30 ticks
\* has elapsed; on every other tick of the chase the path and its goal are
\* kept as they are and the guard only follows the path, to its end at most.
C19_RecomputeWhen ==
    [][UpdateAiStep /\ enemy'.state = "chase" =>
          /\ enemy'.find_path_result # "not called"
                 <=> NoPathOrTarget \/ TargetMoved \/ IntervalElapsed
          /\ enemy'.find_path_result = "not called" => PathKept \/ PathFinished]_vars

\* the guard chases, the interval has not elapsed, and the tick computed a
\* path to the third spot, to which the player has moved
C19_Witness ==
    /\ called = "update_ai"
    /\ enemy.state = "chase"
    /\ enemy.find_path_result = "path"
    /\ enemy.path_recalc_timer \in 1..29
    /\ enemy.target_position = PlayerSpots[3]
    /\ <<player.center_x, player.center_y>> = PlayerSpots[3]

\* the tick in which find_path returned None leaves the guard where it was
HoldsPosition ==
    enemy'.find_path_result = "None" =>
        /\ enemy'.center_x = enemy.center_x
        /\ enemy'.center_y = enemy.center_y

\* after a tick of the chase in which find_path returned None, a tick of the
\* chase asks for a path only when the interval has elapsed
WaitsForInterval ==
    /\ enemy.state = "chase"
    /\ enemy.find_path_result = "None"
    /\ enemy'.state = "chase"
    /\ ~IntervalElapsed
    => enemy'.find_path_result = "not called"

\* C20: when find_path returns None for a guard, the guard holds its
\* position on that tick, and it asks for a path again at the next interval
\* of 30 ticks, not on every tick.
C20_HoldsAndWaits ==
    [][UpdateAiStep => HoldsPosition /\ WaitsForInterval]_vars

\* the path, its cursor and the navigation target of a guard fit together
CursorFits(self) ==
    /\ self.path_waypoints = <<>> =>
           self.current_waypoint_idx = 0 /\ self.target_position = None
    /\ self.path_waypoints # <<>> =>
           /\ self.target_position # None
           /\ 0 <= self.current_waypoint_idx
           /\ self.current_waypoint_idx < Len(self.path_waypoints)

\* a request for a path to the player leaves the guard with the cursor 0
RequestResetsCursor ==
    LET asked(self) == self.current_waypoint_idx = 0 /\ CursorFits(self)
    IN  asked(set_pathfinding_target(enemy, player.center_x, player.center_y, obstacles,
                                     GridWidth, GridHeight, TILE_SIZE))

\* a tick leaves the path as it is, or drops it, or puts in its place the
\* path that find_path returned in the tick, the cursor at its first or
\* second waypoint
ReplacedAsAWhole ==
    \/ enemy'.path_waypoints = enemy.path_waypoints
    \/ enemy'.path_waypoints = <<>>
    \/ enemy'.find_path_result = "path" /\ enemy'.current_waypoint_idx \in 0..1

\* C21: after every operation of a guard the path is replaced as a whole and
\* never edited in place; when a new path is assigned the cursor is 0; when
\* the path is empty the cursor is 0 and the navigation target is None; when
\* the path is not empty the navigation target is set and the cursor is at
\* least 0 and less than the length of the path.
C21_CursorInvariant ==
    /\ [](CursorFits(enemy) /\ CursorFits(clear_path(enemy)) /\ RequestResetsCursor)
    /\ [][UpdateAiStep => ReplacedAsAWhole]_vars

\* the guard is on its way along a path of several waypoints, past the first
C21_Witness ==
    /\ called = "update_ai"
    /\ Len(enemy.path_waypoints) >= 2
    /\ enemy.current_waypoint_idx >= 1
    /\ enemy.target_position # None

\* the speed multipliers that _chase_player, _investigate_position and _patrol
\* pass to _follow_path
FollowMultipliers == {enemy.speed * TickDeltaTime, enemy.chase_speed * TickDeltaTime}

\* the guard is within the arrival threshold of its current waypoint
AtCurrentWaypoint(self) ==
    /\ self.current_waypoint_idx < Len(self.path_waypoints)
    /\ LET at(waypoint) ==
               get_distance_squared(self.center_x, self.center_y, waypoint[1], waypoint[2])
                   < self.movement_threshold * self.movement_threshold
       IN  at(self.path_waypoints[self.current_waypoint_idx + 1])

\* no waypoint remains: the path is empty, or the current waypoint is the
\* last one and the guard is within the arrival threshold of it
NoWaypointRemains(self) ==
    \/ self.path_waypoints = <<>>
    \/ self.current_waypoint_idx >= Len(self.path_waypoints)
    \/ self.current_waypoint_idx = Len(self.path_waypoints) - 1 /\ AtCurrentWaypoint(self)

\* what a call that returns False has done: after is the guard it leaves
FollowedOneStep(self, after, multiplier) ==
    LET advance == IF AtCurrentWaypoint(self) THEN 1 ELSE 0
        waypoint == self.path_waypoints[self.current_waypoint_idx + advance + 1]
        bearing == get_angle_to_point(self.center_x, self.center_y, waypoint[1], waypoint[2])
        move_speed == (self.speed * multiplier) \div 2
    IN  /\ after.current_waypoint_idx = self.current_waypoint_idx + advance
        /\ after.path_waypoints = self.path_waypoints
        /\ after.target_position = self.target_position
        /\ after.vision_angle = bearing
        /\ after.center_x = self.center_x + Cos(bearing) * move_speed
        /\ after.center_y = self.center_y + Sin(bearing) * move_speed
        /\ get_distance_squared(self.center_x, self.center_y, after.center_x, after.center_y)
               = move_speed * move_speed

\* C22: _follow_path returns True exactly when no waypoint remains (the path
\* is empty, or the guard is within the arrival threshold of the final
\* waypoint), and then the path is cleared and the guard does not move;
\* otherwise it returns False, the cursor advances by at most one (only when
\* the guard is within the arrival threshold of the current waypoint), the
\* guard moves by exactly speed x multiplier toward the current waypoint, and
\* its facing angle is the bearing of that waypoint.
C22_FollowPathContract ==
    \A multiplier \in FollowMultipliers :
        LET holds(result) ==
                /\ result[2] = NoWaypointRemains(enemy)
                /\ result[2] =>
                       /\ result[1].path_waypoints = <<>>
                       /\ result[1].center_x = enemy.center_x
                       /\ result[1].center_y = enemy.center_y
                       /\ result[1].vision_angle = enemy.vision_angle
                /\ ~result[2] => FollowedOneStep(enemy, result[1], multiplier)
        IN  holds(follow_path(enemy, multiplier))

\* a guard within the arrival threshold of a waypoint that is not the last:
\* the call steps the cursor and heads for the next waypoint
C22_Witness ==
    /\ called = "update_ai"
    /\ AtCurrentWaypoint(enemy)
    /\ ~NoWaypointRemains(enemy)
    /\ ~follow_path(enemy, enemy.speed * TickDeltaTime)[2]

\* a guard within the arrival threshold of its last waypoint: the call
\* returns True
FollowPathArrives ==
    /\ enemy.path_waypoints # <<>>
    /\ NoWaypointRemains(enemy)
    /\ follow_path(enemy, enemy.speed * TickDeltaTime)[2]

\* an update_ai tick of a living guard with patrol points that runs _patrol
PatrolTick ==
    /\ UpdateAiStep
    /\ enemy.patrol_points # <<>>
    /\ \/ enemy'.state = "patrol"
       \/ enemy'.state = "alert" /\ enemy.last_known_player_pos = None

\* the guard is within 10 units of its current patrol point
AtPatrolPoint ==
    LET at(point) ==
            get_distance_squared(enemy.center_x, enemy.center_y, point[1], point[2])
                < (10 * 2) * (10 * 2)
    IN  at(enemy.patrol_points[enemy.current_patrol_index + 1])

\* the tick leaves the guard where it is, without a path
StaysWithoutPath ==
    /\ enemy'.center_x = enemy.center_x
    /\ enemy'.center_y = enemy.center_y
    /\ enemy'.path_waypoints = <<>>
    /\ enemy'.target_position = None

PatrolIndexInRange ==
    enemy.patrol_points # <<>> =>
        /\ enemy.current_patrol_index \in 0..(Len(enemy.patrol_points) - 1)
        /\ enemy.patrol_pause_counter \in 0..GUARD_PATROL_PAUSE_TIME

\* a patrol tick of a pausing guard counts the pause down; one of a guard at
\* its patrol point steps the index cyclically and starts the pause; any other
\* one keeps the index and moves the guard along a path, if there is one
PatrolStep ==
    IF enemy.patrol_pause_counter > 0
    THEN /\ enemy'.patrol_pause_counter = enemy.patrol_pause_counter - 1
         /\ enemy'.current_patrol_index = enemy.current_patrol_index
         /\ StaysWithoutPath
    ELSE IF AtPatrolPoint
    THEN /\ enemy'.current_patrol_index
                = (enemy.current_patrol_index + 1) % Len(enemy.patrol_points)
         /\ enemy'.patrol_pause_counter = GUARD_PATROL_PAUSE_TIME
         /\ StaysWithoutPath
    ELSE /\ enemy'.current_patrol_index = enemy.current_patrol_index
         /\ enemy'.patrol_pause_counter = 0
         /\ \/ enemy'.path_waypoints = <<>>
            \/ <<enemy'.center_x, enemy'.center_y>> # <<enemy.center_x, enemy.center_y>>

\* a tick that does not run _patrol leaves index and pause as they are
OtherStep ==
    /\ enemy'.current_patrol_index = enemy.current_patrol_index
    /\ enemy'.patrol_pause_counter = enemy.patrol_pause_counter

\* C24: with a non-empty patrol list current_patrol_index is always in
\* [0, len(patrol_points)); when the guard arrives within 10 units of the
\* current patrol point the index advances to (index + 1) mod len and the
\* guard stays where it is, with no path, for the next
\* GUARD_PATROL_PAUSE_TIME patrol ticks before it moves toward the next point.
C24_PatrolCycle ==
    /\ []PatrolIndexInRange
    /\ [][UpdateAiStep /\ enemy.patrol_points # <<>> =>
              IF PatrolTick THEN PatrolStep ELSE OtherStep]_vars

\* the guard has arrived at its second patrol point: the index is back at 0
\* and the pause begins
C24_Witness ==
    /\ called = "update_ai"
    /\ Len(enemy.patrol_points) = 2
    /\ enemy.current_patrol_index = 0
    /\ enemy.patrol_pause_counter = GUARD_PATROL_PAUSE_TIME
    /\ get_distance_squared(enemy.center_x, enemy.center_y, PatrolRoute[2][1], PatrolRoute[2][2])
           < (10 * 2) * (10 * 2)

\* the pause is over and the guard is on its way to the next patrol point
PatrolResumes ==
    /\ called = "update_ai"
    /\ enemy.state = "patrol"
    /\ enemy.current_patrol_index = 0
    /\ enemy.patrol_pause_counter = 0
    /\ enemy.path_waypoints # <<>>
    /\ enemy.center_x < PatrolRoute[2][1] - 10 * 2

\* ------------------------------------------------------------ geometry

\* end points of sight lines and starts of rays, in, on and around the
\* obstacles below
GeoPoints == {<<x, y>> : x \in {0, 4, 6, 10, 12, 16}, y \in {4, 8, 12, 16}}

\* a box from (4, 4) to (12, 12)
Box == Obstacle(8, 8, 8, 8)

\* a box from (12, 12) to (16, 16), corner to corner with Box
Far == Obstacle(14, 14, 4, 4)

\* a slab from (12, 0) to (16, 16), side by side with Box
Slab == Obstacle(14, 8, 4, 16)

\* an obstacle of width 0 and one of width and height 0
Thin == Obstacle(8, 8, 0, 8)
Dot == Obstacle(8, 8, 0, 0)

GeoObstacleLists ==
    {<<>>, <<Box>>, <<Far>>, <<Box, Far>>, <<Far, Box>>, <<Slab, Box>>, <<Box, Slab>>,
     <<Far, Slab, Box>>, <<Thin>>, <<Dot>>}

\* directions of rays: along the axes
RayAngles == {0, 9000, 18000, 27000}

\* max_distance of a ray
RayLengths == {0, 4, 7, 20}

\* end points of the two segments given to line_segment_intersection
SegmentPoints == {<<0, 0>>, <<4, 0>>, <<8, 0>>, <<4, 4>>, <<0, 8>>, <<8, 8>>}

\* the calls of cast_ray, has_line_of_sight and line_segment_intersection
CastRayArgs ==
    {[function |-> "cast_ray", start_x |-> start[1], start_y |-> start[2], angle |-> angle,
      max_distance |-> max_distance, obstacles |-> obs] :
         start \in GeoPoints, angle \in RayAngles, max_distance \in RayLengths,
         obs \in GeoObstacleLists}

HasLineOfSightArgs ==
    {[function |-> "has_line_of_sight", x1 |-> p1[1], y1 |-> p1[2], x2 |-> p2[1],
      y2 |-> p2[2], obstacles |-> obs] :
         p1 \in GeoPoints, p2 \in GeoPoints, obs \in GeoObstacleLists}

LineSegmentIntersectionArgs ==
    {[function |-> "line_segment_intersection", x1 |-> p1[1], y1 |-> p1[2],
      x2 |-> p2[1], y2 |-> p2[2], x3 |-> p3[1], y3 |-> p3[2], x4 |-> p4[1], y4 |-> p4[2]] :
         p1 \in SegmentPoints, p2 \in SegmentPoints, p3 \in SegmentPoints,
         p4 \in SegmentPoints}

\* a caller runs cast_ray(start_x, start_y, angle, max_distance, obstacles)
CastRay ==
    /\ args.function = "cast_ray"
    /\ returned' = cast_ray(args.start_x, args.start_y, args.angle, args.max_distance,
                            args.obstacles)
    /\ called' = "cast_ray"
    /\ UNCHANGED <<env, ticks, loop, detection, gsm_vars, enemy, player, obstacles, bullet, args>>

\* a caller runs has_line_of_sight(x1, y1, x2, y2, obstacles)
HasLineOfSight ==
    /\ args.function = "has_line_of_sight"
    /\ returned' = has_line_of_sight(args.x1, args.y1, args.x2, args.y2, args.obstacles)
    /\ called' = "has_line_of_sight"
    /\ UNCHANGED <<env, ticks, loop, detection, gsm_vars, enemy, player, obstacles, bullet, args>>

\* a caller runs line_segment_intersection(x1, y1, x2, y2, x3, y3, x4, y4)
LineSegmentIntersection ==
    /\ args.function = "line_segment_intersection"
    /\ returned' = line_segment_intersection(args.x1, args.y1, args.x2, args.y2,
                                             args.x3, args.y3, args.x4, args.y4)
    /\ called' = "line_segment_intersection"
    /\ UNCHANGED <<env, ticks, loop, detection, gsm_vars, enemy, player, obstacles, bullet, args>>

\* the ray and sight functions of utils.py, called on their own with any
\* arguments
InitGeometry ==
    /\ detection = DetectionLevel(detection_threshold)
    /\ gsm = GuardStateMachine(detection_threshold)
    /\ last = NoCall
    /\ seen_time = 0
    /\ unseen_time = 0
    /\ enemy = Enemy(0, 0, <<>>)
    /\ player = Player(50, 10)
    /\ obstacles = <<>>
    /\ bullet = None
    /\ env = None
    /\ ticks = NoTicks
    /\ loop = None
    /\ called = ""
    /\ args \in CastRayArgs \cup HasLineOfSightArgs \cup LineSegmentIntersectionArgs
    /\ returned = None

NextGeometry ==
    \/ CastRay
    \/ HasLineOfSight
    \/ LineSegmentIntersection

SpecGeometry == InitGeometry /\ [][NextGeometry]_vars

\* the point at distance k along the ray of the cast_ray call
RayPoint(k) ==
    <<args.start_x + Cos(args.angle) * k, args.start_y + Sin(args.angle) * k>>

\* point p lies on the edge from (x3, y3) to (x4, y4) of a rectangle
OnEdge(p, x3, y3, x4, y4) ==
    /\ Min(x3, x4) <= p[1] /\ p[1] <= Max(x3, x4)
    /\ Min(y3, y4) <= p[2] /\ p[2] <= Max(y3, y4)

\* the edges of obstacle o: <<x3, y3, x4, y4>>
Edges(o) ==
    {<<left(o), top(o), right(o), top(o)>>, <<left(o), bottom(o), right(o), bottom(o)>>,
     <<left(o), bottom(o), left(o), top(o)>>, <<right(o), bottom(o), right(o), top(o)>>}

\* the edge e runs across the direction (dx, dy): it is no point, and is not
\* parallel to it
Across(e, dx, dy) ==
    dx * (e[4] - e[2]) - dy * (e[3] - e[1]) # 0

\* the distances, up to max_distance, at which the ray meets an edge of
\* obstacle o
MeetsAt(o) ==
    {k \in 0..args.max_distance :
        \E e \in Edges(o) : OnEdge(RayPoint(k), e[1], e[2], e[3], e[4])}

\* the distances at which the ray meets an edge of o that runs across it
CrossesAt(o) ==
    {k \in 0..args.max_distance :
        \E e \in Edges(o) :
            /\ args.max_distance > 0
            /\ Across(e, Cos(args.angle), Sin(args.angle))
            /\ OnEdge(RayPoint(k), e[1], e[2], e[3], e[4])}

\* the union of the sets f(obs[i])
AllOf(f(_), obs) == UNION {f(obs[i]) : i \in 1..Len(obs)}

\* the least element of a non-empty set of numbers
Least(S) == CHOOSE k \in S : \A j \in S : k <= j

\* what cast_ray returned, given the distances hits(o) at which the ray meets
\* obstacle o
RayContract(hits(_)) ==
    LET all == AllOf(hits, args.obstacles)
    IN  /\ 0 <= returned[1] /\ returned[1] <= args.max_distance
        /\ all = {} => returned = <<args.max_distance, None>>
        /\ returned[2] # None =>
               /\ \E i \in 1..Len(args.obstacles) : returned[2] = args.obstacles[i]
               /\ returned[1] \in hits(returned[2])
               /\ returned[1] = Least(all)
               /\ returned[1] < args.max_distance

\* C25 as stated: when cast_ray returns an obstacle, the distance is that to
\* the nearest point the ray has in common with an edge of an obstacle
C25_NearestOfAllEdges ==
    called = "cast_ray" => RayContract(MeetsAt)

\* C25 (amended): cast_ray returns a distance d with 0 <= d <= max_distance;
\* when the ray meets no obstacle it returns (max_distance, None); when it
\* returns an obstacle, d is less than max_distance and is the distance to
\* the nearest point, among all obstacles, at which the ray meets an edge
\* that is not parallel to it.
C25_NearestCrossing ==
    called = "cast_ray" =>
        /\ RayContract(CrossesAt)
        /\ AllOf(MeetsAt, args.obstacles) = {} => returned = <<args.max_distance, None>>

\* the ray crosses two obstacles and the nearer one is the second of the list
C25_Witness ==
    /\ called = "cast_ray"
    /\ Len(args.obstacles) >= 2
    /\ returned[2] = args.obstacles[2]
    /\ CrossesAt(args.obstacles[1]) # {}
    /\ returned[1] < Least(CrossesAt(args.obstacles[1]))

\* the side of the line from a to b that c lies on: 1, -1, or 0 on the line
Side(a, b, c) ==
    LET cross == (b[1] - a[1]) * (c[2] - a[2]) - (b[2] - a[2]) * (c[1] - a[1])
    IN  IF cross > 0 THEN 1 ELSE IF cross < 0 THEN -1 ELSE 0

\* the segments from p1 to p2 and from p3 to p4 have a point in common
SegmentsMeet(p1, p2, p3, p4) ==
    \/ Side(p1, p2, p3) # Side(p1, p2, p4) /\ Side(p3, p4, p1) # Side(p3, p4, p2)
    \/ Side(p1, p2, p3) = 0 /\ OnEdge(p3, p1[1], p1[2], p2[1], p2[2])
    \/ Side(p1, p2, p4) = 0 /\ OnEdge(p4, p1[1], p1[2], p2[1], p2[2])
    \/ Side(p3, p4, p1) = 0 /\ OnEdge(p1, p3[1], p3[2], p4[1], p4[2])
    \/ Side(p3, p4, p2) = 0 /\ OnEdge(p2, p3[1], p3[2], p4[1], p4[2])

\* the sight line of the has_line_of_sight call has a point in common with
\* edge e
SightMeets(e) ==
    SegmentsMeet(<<args.x1, args.y1>>, <<args.x2, args.y2>>, <<e[1], e[2]>>, <<e[3], e[4]>>)

\* the lists with the elements of obs in any order
Orders(obs) ==
    {[i \in 1..Len(obs) |-> obs[f[i]]] :
        f \in {g \in [1..Len(obs) -> 1..Len(obs)] :
                  \A i, j \in 1..Len(obs) : g[i] = g[j] => i = j}}

\* the answer is the same with the end points swapped and with the
\* obstacles in any order
SameSwappedAndReordered ==
    /\ has_line_of_sight(args.x2, args.y2, args.x1, args.y1, args.obstacles) = returned
    /\ \A obs \in Orders(args.obstacles) :
           has_line_of_sight(args.x1, args.y1, args.x2, args.y2, obs) = returned

\* C26 as stated: has_line_of_sight is true if and only if the segment from
\* p1 to p2 has no point in common with any of the four edges of any obstacle
C26_NoEdgeMet ==
    called = "has_line_of_sight" =>
        returned = (\A i \in 1..Len(args.obstacles) :
                       \A e \in Edges(args.obstacles[i]) : ~SightMeets(e))

\* C26 (amended): has_line_of_sight(p1, p2, obstacles) is true if and only if
\* the segment from p1 to p2 meets no edge of an obstacle rectangle that is
\* not parallel to it; the answer is the same when p1 and p2 are swapped and
\* does not depend on the order of the obstacle list.
C26_NoEdgeCrossed ==
    called = "has_line_of_sight" =>
        /\ returned = (\A i \in 1..Len(args.obstacles) :
                          \A e \in Edges(args.obstacles[i]) :
                              ~(/\ Across(e, args.x2 - args.x1, args.y2 - args.y1)
                                /\ SightMeets(e)))
        /\ SameSwappedAndReordered

\* a sight line that is blocked by the last of three obstacles only
C26_Witness ==
    /\ called = "has_line_of_sight"
    /\ Len(args.obstacles) = 3
    /\ ~returned
    /\ has_line_of_sight(args.x1, args.y1, args.x2, args.y2, SubSeq(args.obstacles, 1, 2))

\* a sight line that runs inside an edge of an obstacle and counts as clear
SightAlongEdge ==
    /\ called = "has_line_of_sight"
    /\ returned
    /\ <<args.x1, args.y1>> # <<args.x2, args.y2>>
    /\ args.obstacles = <<Box>>
    /\ \E e \in Edges(Box) : SightMeets(e)

\* the two segments of the line_segment_intersection call are parallel or
\* collinear, or one of them has length 0
Degenerate ==
    LET p1 == <<args.x1, args.y1>>
        p2 == <<args.x2, args.y2>>
        along == <<args.x1 + args.x4 - args.x3, args.y1 + args.y4 - args.y3>>
    IN  \/ p1 = p2
        \/ <<args.x3, args.y3>> = <<args.x4, args.y4>>
        \/ Side(p1, p2, along) = 0

\* C27: degenerate input causes no numeric fault: line_segment_intersection
\* returns None, dividing by nothing, whenever its determinant is 0, which is
\* so for parallel and collinear segments, for a ray of length 0 and for
\* rectangle edges of length 0; has_line_of_sight and cast_ray treat such
\* input as no intersection.
C27_DegenerateIsNone ==
    /\ called = "line_segment_intersection" =>
           /\ Degenerate => returned = None
           /\ returned # None => returned[3] > 0
    /\ called = "has_line_of_sight" =>
           /\ <<args.x1, args.y1>> = <<args.x2, args.y2>> => returned
           /\ (\A i \in 1..Len(args.obstacles) :
                  args.obstacles[i].width = 0 /\ args.obstacles[i].height = 0) => returned
    /\ called = "cast_ray" =>
           /\ args.max_distance = 0 => returned = <<0, None>>
           /\ (\A i \in 1..Len(args.obstacles) :
                  args.obstacles[i].width = 0 /\ args.obstacles[i].height = 0)
                  => returned = <<args.max_distance, None>>

\* two collinear segments that overlap: the call returns None
C27_Witness ==
    /\ called = "line_segment_intersection"
    /\ <<args.x1, args.y1>> # <<args.x2, args.y2>>
    /\ <<args.x3, args.y3>> # <<args.x4, args.y4>>
    /\ Side(<<args.x1, args.y1>>, <<args.x2, args.y2>>, <<args.x3, args.y3>>) = 0
    /\ Side(<<args.x1, args.y1>>, <<args.x2, args.y2>>, <<args.x4, args.y4>>) = 0
    /\ SegmentsMeet(<<args.x1, args.y1>>, <<args.x2, args.y2>>,
                    <<args.x3, args.y3>>, <<args.x4, args.y4>>)
    /\ returned = None

\* a point obstacle on a sight line, and a sight line of length 0 on an edge
PointObstacleOnSightLine ==
    /\ called = "has_line_of_sight"
    /\ args.obstacles = <<Dot>>
    /\ SightMeets(<<8, 8, 8, 8>>)
    /\ <<args.x1, args.y1>> # <<args.x2, args.y2>>

\* the place in the raw path of the last find_path of waypoint p
RawIndex(p) == CHOOSE i \in 1..Len(RawPath) : RawPath[i] = p

\* the m-th waypoint that simplify_path kept is followed by the later raw
\* waypoint next to it, or by one in clear view of it
KeptInView(m) ==
    LET from == RawIndex(returned[m])
        to == RawIndex(returned[m + 1])
    IN  /\ from < to
        /\ \/ to = from + 1
           \/ has_clear_path(returned[m], returned[m + 1], args.obstacles, TILE_SIZE)

\* no raw waypoint after the one kept next is in clear view of the m-th
\* waypoint that simplify_path kept
NoneBeyond(m) ==
    \A k \in (RawIndex(returned[m + 1]) + 1)..Len(RawPath) :
        ~has_clear_path(returned[m], RawPath[k], args.obstacles, TILE_SIZE)

\* C28: from each waypoint it keeps, simplify_path picks the farthest later
\* waypoint of the raw path that has a clear path from it: no raw waypoint
\* beyond the chosen one has a clear path from the kept one.
C28_FarthestInView ==
    called = "find_path" /\ returned # None /\ Len(RawPath) > 2 =>
        \A m \in 1..(Len(returned) - 1) : KeptInView(m) /\ NoneBeyond(m)

\* what holds of simplify_path: each waypoint it keeps is followed by a later
\* raw waypoint that is next to it or in clear view of it
SimplifiedInView ==
    called = "find_path" /\ returned # None /\ Len(RawPath) > 2 =>
        \A m \in 1..(Len(returned) - 1) : KeptInView(m)

\* the cost of a step between two tiles, in tenths: 1.0, or 1.4 for a diagonal
StepCost(from, to) ==
    IF from[1] # to[1] /\ from[2] # to[2] THEN 14 ELSE 10

RECURSIVE PathCost(_)
\* the total cost of the steps of a list of tiles
PathCost(cells) ==
    IF Len(cells) < 2
    THEN 0
    ELSE StepCost(cells[1], cells[2]) + PathCost(Tail(cells))

RECURSIVE Cheapest(_, _)
\* the least cost, per tile, of the lists of legal steps over walkable tiles
\* of the grid that lead to it from the start tile: cost holds the least cost
\* found so far, and the tiles of frontier are those whose cost has just
\* dropped
Cheapest(cost, frontier) ==
    LET via(b) == {a \in frontier : LegalStep(a, b)}
        least(b) == Least({cost[a] + StepCost(a, b) : a \in via(b)})
        improved == {b \in UNION {Around(a) : a \in frontier} :
                        /\ InGrid(b) /\ Walkable(b)
                        /\ via(b) # {}
                        /\ b \in DOMAIN cost => least(b) < cost[b]}
    IN  IF improved = {}
        THEN cost
        ELSE Cheapest([c \in DOMAIN cost \cup improved |->
                          IF c \in improved THEN least(c) ELSE cost[c]],
                      improved)

\* C30: the cell-by-cell path that find_path reconstructs has the least total
\* cost (1.0 per cardinal step, 1.4 per permitted diagonal step) of all valid
\* cell paths from the start cell to the goal cell.
C30_OptimalPath ==
    called = "find_path" /\ returned # None =>
        LET least(cost) ==
                /\ Target \in DOMAIN cost
                /\ PathCost(RawCells) = cost[Target]
        IN  least(Cheapest(StartCell :> 0, {StartCell}))

\* what holds of the path: its cost is that of its steps, and the goal node
\* records it
PathCostRecorded ==
    called = "find_path" /\ returned # None => GoalNode.g = PathCost(RawCells)

\* what the while loop of the last find_path passes to its for loop
SearchArgs ==
    [goal_grid |-> Target, obstacles |-> args.obstacles, tile_size |-> TILE_SIZE,
     grid_width |-> args.grid_width, grid_height |-> args.grid_height,
     player_radius |-> GUARD_SIZE, max_distance |-> None]

RECURSIVE Expansions(_, _, _)
\* the rounds of the while loop of the last find_path, from the given
\* open_set, closed_set and g_scores up to the round that pops the goal: per
\* round the node popped, closed_set and g_scores as its for loop finds them,
\* and the neighbours, open_set and g_scores as the for loop leaves them
Expansions(open_set, closed_set, g_scores) ==
    IF open_set = <<>>
    THEN <<>>
    ELSE LET round(current, closed, neighbors, st) ==
                 << [current |-> current, closed_set |-> closed, g_scores |-> g_scores,
                     neighbors |-> neighbors, after |-> st] >>
                 \o Expansions(st.open_set, closed, st.g_scores)
             expand(current, rest, closed, neighbors) ==
                 IF <<current.x, current.y>> = Target
                 THEN <<>>
                 ELSE round(current, closed, neighbors,
                            for_each_neighbor(neighbors,
                                              [open_set |-> rest, g_scores |-> g_scores],
                                              current, closed, SearchArgs))
             visit(popped) ==
                 expand(popped[1], popped[2],
                        closed_set \cup {<<popped[1].x, popped[1].y>>},
                        get_neighbors(popped[1].x, popped[1].y,
                                      args.grid_width, args.grid_height,
                                      args.obstacles, TILE_SIZE, GUARD_SIZE))
         IN  visit(heappop(open_set))

\* the rounds of the search of the last find_path
Search ==
    IF ~Walkable(StartCell) \/ Target = None
    THEN <<>>
    ELSE Expansions(heappush(<<>>, Node(StartCell[1], StartCell[2], 0,
                                        heuristic(StartCell[1], StartCell[2],
                                                  Target[1], Target[2]),
                                        None)),
                    {}, StartCell :> 0)

\* in the round e the neighbour n = <<x, y, cost>> is walkable and reached at
\* a cost strictly below the g recorded for its tile
FoundBetter(e, n) ==
    /\ Walkable(<<n[1], n[2]>>)
    /\ <<n[1], n[2]>> \in DOMAIN e.g_scores
    /\ e.current.g + n[3] < e.g_scores[<<n[1], n[2]>>]

\* the round e has recorded the lower g for the neighbour n and queued a node
\* for it whose parent is the node of the round
Requeued(e, n) ==
    /\ e.after.g_scores[<<n[1], n[2]>>] = e.current.g + n[3]
    /\ \E k \in 1..Len(e.after.open_set) :
           /\ e.after.open_set[k].x = n[1]
           /\ e.after.open_set[k].y = n[2]
           /\ e.after.open_set[k].g = e.current.g + n[3]
           /\ e.after.open_set[k].parent = e.current

\* the neighbour n of the round e had been expanded before
Expanded(e, n) == <<n[1], n[2]>> \in e.closed_set

\* C29: in the A* search a cell is revisited whenever a strictly better cost
\* from the start is found for it: the cell is queued again with the lower g
\* and the better route replaces the earlier one, also when the cell had
\* already been expanded.
C29_BetterIsRequeued ==
    called = "find_path" =>
        LET all(rounds) ==
                \A i \in 1..Len(rounds) :
                    \A j \in 1..Len(rounds[i].neighbors) :
                        FoundBetter(rounds[i], rounds[i].neighbors[j])
                            => Requeued(rounds[i], rounds[i].neighbors[j])
        IN  all(Search)

\* what holds of the search: a better g found for a cell that has not been
\* expanded is recorded and the cell queued again; one found for an expanded
\* cell changes nothing
BetterIsRequeuedUnlessExpanded ==
    called = "find_path" =>
        LET all(rounds) ==
                \A i \in 1..Len(rounds) :
                    \A j \in 1..Len(rounds[i].neighbors) :
                        FoundBetter(rounds[i], rounds[i].neighbors[j]) =>
                            IF Expanded(rounds[i], rounds[i].neighbors[j])
                            THEN rounds[i].after.g_scores[<<rounds[i].neighbors[j][1],
                                                           rounds[i].neighbors[j][2]>>]
                                     = rounds[i].g_scores[<<rounds[i].neighbors[j][1],
                                                           rounds[i].neighbors[j][2]>>]
                            ELSE Requeued(rounds[i], rounds[i].neighbors[j])
        IN  all(Search)

\* a better g is found for a cell in open_set
BetterFoundForQueued ==
    /\ called = "find_path"
    /\ LET some(rounds) ==
               \E i \in 1..Len(rounds) :
                   \E j \in 1..Len(rounds[i].neighbors) :
                       /\ FoundBetter(rounds[i], rounds[i].neighbors[j])
                       /\ ~Expanded(rounds[i], rounds[i].neighbors[j])
       IN  some(Search)

\* the rounds are those of find_path: the node popped after the last round is
\* the node from which find_path reconstructs its path
SearchEndsAtGoal ==
    called = "find_path" /\ returned # None /\ StartCell # Target =>
        LET ends(rounds) == heappop(rounds[Len(rounds)].after.open_set)[1] = GoalNode
        IN  ends(Search)

\* ------------------------------------------------------------ the step

\* an episode in the corridor: two guards, the player in the fourth tile
InitStep ==
    /\ detection = DetectionLevel(detection_threshold)
    /\ gsm = GuardStateMachine(detection_threshold)
    /\ last = NoCall
    /\ seen_time = 0
    /\ unseen_time = 0
    /\ enemy = Enemy(0, 0, <<>>)
    /\ player = Player(50, 10)
    /\ obstacles = <<>>
    /\ bullet = None
    /\ env = HunterAssassinEnv(Player(PlayerSpots[1][1], PlayerSpots[1][2]),
                               CorridorGuards, <<EndWall>>)
    /\ ticks = NoTicks
    /\ loop = None
    /\ called = ""
    /\ args = None
    /\ returned = None

NextStep == Step

SpecStep == InitStep /\ [][NextStep]_vars

\* the target as the move of the step that was just taken leaves it
MovedTarget ==
    move(env.player, config_ACTIONS[args'.action][1], config_ACTIONS[args'.action][2],
         env.obstacles, SCREEN_WIDTH, SCREEN_HEIGHT)

\* what update_ai gives for guard i alone, from its state before the step and
\* the moved target
UpdatedAlone(i) ==
    update_ai(env.enemies[i], MovedTarget, env.obstacles, TickDeltaTime,
              env.grid_width, env.grid_height, env.tile_size, NoDraw)

\* the bullets that the living guards from the i-th on fire in the step, in
\* the order of the list of guards
RECURSIVE Shots(_)
Shots(i) ==
    LET then(result) ==
            (IF result[2] # None THEN <<result[2]>> ELSE <<>>) \o Shots(i + 1)
    IN  IF i > Len(env.enemies) THEN <<>> ELSE then(UpdatedAlone(i))

\* the bullets in flight after the step: the earlier ones, then the shots
InFlight == update_bullets([env EXCEPT !.bullets = @ \o Shots(1)]).bullets

\* the step leaves the target where its move put it
TargetWhereMoved ==
    /\ env'.player.center_x = MovedTarget.center_x
    /\ env'.player.center_y = MovedTarget.center_y

\* every living guard was updated once, against the moved and living target
\* and from its own state alone; a dead guard is left as it was
GuardsSawMovedTarget ==
    \A i \in 1..Len(env.enemies) :
        IF env.enemies[i].alive
        THEN /\ [env'.enemies[i] EXCEPT !.alive = TRUE] = UpdatedAlone(i)[1]
             /\ env'.enemies[i].can_see_player
                    => env'.enemies[i].last_known_player_pos
                           = <<env'.player.center_x, env'.player.center_y>>
        ELSE env'.enemies[i] = env.enemies[i]

\* the bullets after the step are those in flight: the earlier ones and then
\* the shots of the guards in list order, each flown on
BulletsInListOrder(in_flight) ==
    /\ Len(env'.bullets) = Len(in_flight)
    /\ \A k \in 1..Len(in_flight) : [env'.bullets[k] EXCEPT !.active = TRUE] = in_flight[k]

\* the target dies in the step exactly if a bullet in flight after the guards'
\* updates hits it; a guard dies in it only as the target of the attack
EffectsAfterUpdates(in_flight) ==
    /\ ~env'.player.alive
           <=> \E k \in 1..Len(in_flight) : check_hit_player(in_flight[k], MovedTarget)
    /\ \A i \in 1..Len(env.enemies) :
           env.enemies[i].alive /\ ~env'.enemies[i].alive
               => /\ env.player.attack_target = <<i>>
                  /\ env'.player.kills = env.player.kills + 1

\* what a step does with the bullets in flight after the guards' updates
StepSettles(in_flight) ==
    /\ BulletsInListOrder(in_flight)
    /\ EffectsAfterUpdates(in_flight)

\* C23: within one step the action moves the target first, every living guard
\* is then updated against that same moved target and from its own state
\* alone, the guards' bullets join the list in the order of the guards, and
\* the target or a guard dies only after all guards were updated
C23_GuardsSeeSameTarget ==
    [][Step => /\ TargetWhereMoved
               /\ GuardsSawMovedTarget
               /\ StepSettles(InFlight)]_vars

\* the target has just moved left, both guards saw it where it now stands,
\* and both fired in this step
C23_Witness ==
    /\ called = "step"
    /\ args.action = 3
    /\ env.player.center_x < PlayerSpots[1][1]
    /\ \A i \in 1..2 :
           /\ env.enemies[i].can_see_player
           /\ env.enemies[i].last_known_player_pos = <<env.player.center_x, env.player.center_y>>
    /\ Len(env.bullets) >= 2
    /\ \A k \in Len(env.bullets) - 1 .. Len(env.bullets) : env.bullets[k].age = 1

\* a bullet has just killed the target, after both guards were updated
TargetShotAfterUpdates ==
    /\ called = "step"
    /\ ~env.player.alive
    /\ \A i \in 1..2 : env.enemies[i].alive /\ env.enemies[i].can_see_player

\* the target has just killed the second guard
GuardKilledAfterUpdates ==
    /\ called = "step"
    /\ env.player.alive
    /\ env.player.kills = 1
    /\ env.player.damage_dealt
    /\ ~env.enemies[2].alive

\* ------------------------------------------------------------ the state machine as a whole

\* the changes of state that one update may make
StateEdges ==
    {<<PATROL, SUSPICIOUS>>, <<PATROL, ALERTED>>,
     <<SUSPICIOUS, ALERTED>>, <<SUSPICIOUS, PATROL>>,
     <<ALERTED, SEARCHING>>,
     <<SEARCHING, ALERTED>>, <<SEARCHING, PATROL>>}

\* C33: one update of a GuardStateMachine leaves the state as it is or changes
\* it along one of seven edges: Patrol to Suspicious or Alerted, Suspicious to
\* Alerted or Patrol, Alerted to Searching, Searching to Alerted or Patrol; so
\* Searching is entered from Alerted only, Suspicious from Patrol only, and
\* Alerted is left for Searching only.
C33_TransitionEdges ==
    [][gsm'.state = gsm.state \/ <<gsm.state, gsm'.state>> \in StateEdges]_vars

\* an Alerted guard that lost sight for the delay has just begun to search
C33_Witness ==
    /\ last.called /\ last.state = ALERTED
    /\ ~last.can_see_player
    /\ gsm.state = SEARCHING
    /\ gsm.lost_sight_timer >= lost_sight_delay

\* a searching guard has just caught sight again
SearchEndsInAlert ==
    /\ last.called /\ last.state = SEARCHING
    /\ gsm.state = ALERTED

\* C34: in every reachable state suspicious_timer is 0 unless the state is
\* Suspicious and search_timer is 0 unless the state is Searching, and an
\* update that enters Suspicious or Searching leaves the timer of that state
\* at 0.
C34_TimersZeroOutsideState ==
    /\ [](gsm.state # SUSPICIOUS => gsm.suspicious_timer = 0)
    /\ [](gsm.state # SEARCHING => gsm.search_timer = 0)
    /\ [][/\ gsm.state # SUSPICIOUS /\ gsm'.state = SUSPICIOUS => gsm'.suspicious_timer = 0
          /\ gsm.state # SEARCHING /\ gsm'.state = SEARCHING => gsm'.search_timer = 0]_vars

\* a guard whose suspicion ran for suspicious_duration is back in Patrol
C34_Witness ==
    /\ last.called /\ last.state = SUSPICIOUS
    /\ ~last.can_see_player
    /\ gsm.state = PATROL
    /\ gsm.suspicious_timer = 0
    /\ gsm.search_timer = 0

\* a guard that was suspicious for a while is alerted, its timer at 0 again
SuspicionEndsInAlert ==
    /\ last.called /\ last.state = SUSPICIOUS
    /\ gsm.state = ALERTED
    /\ seen_time < 0
    /\ gsm.suspicious_timer = 0

\* C35: an update on which the target is not visible stores no position that
\* depends on player_pos: last_known_position, investigation_pos and the
\* position the guard navigates to are the same whatever player_pos is; and
\* Suspicious is entered from Patrol only on an update that sees the target.
C35_UnseenPositionNotLearned ==
    /\ \A dt \in DeltaTimes, pp1, pp2 \in Positions, gp \in GuardPositions :
           LET stored(sm) == <<sm.last_known_position, sm.investigation_pos,
                               get_target_position(sm)>>
           IN  stored(update(gsm, dt, FALSE, pp1, gp)) = stored(update(gsm, dt, FALSE, pp2, gp))
    /\ last.called /\ last.state = PATROL /\ gsm.state = SUSPICIOUS => last.can_see_player

\* a guard in Patrol whose detection falls back into [0.2, 0.5) on an update
\* that does not see the target, and so becomes Suspicious
SuspiciousWithoutSight ==
    /\ last.called /\ last.state = PATROL
    /\ ~last.can_see_player
    /\ gsm.state = SUSPICIOUS
    /\ gsm.investigation_pos \in Positions

\* ------------------------------------------------------------ calming down

\* the guard is in Patrol with detection exactly 0
Calm ==
    gsm.state = PATROL /\ gsm.detection.value = 0

\* the time without sight after which a guard that is not calm is followed no
\* further: twice the time of a full search after a full chase
CalmBy == 2 * (lost_sight_delay + search_duration)

\* the guard's owner runs gsm.update(dt, False, player_pos, guard_pos) with a
\* positive dt; a calm guard is followed until its lost_sight_timer reaches
\* MaxUnseen, any other until it reaches CalmBy
GsmUpdateUnseen ==
    \E dt \in DeltaTimes \ {0}, player_pos \in Positions, guard_pos \in GuardPositions :
        /\ gsm.lost_sight_timer + dt <= IF Calm THEN MaxUnseen ELSE CalmBy
        /\ gsm' = update(gsm, dt, FALSE, player_pos, guard_pos)
        /\ last' = [state |-> gsm.state, can_see_player |-> FALSE, called |-> TRUE]
        /\ seen_time' = -1
        /\ unseen_time' = unseen_time + dt
        /\ UNCHANGED <<env, ticks, loop, detection, enemy_vars, call_vars>>

NextCalm ==
    \/ GsmUpdate
    \/ GsmUpdateUnseen

\* a GuardStateMachine under any sequence of updates, in which updates with a
\* positive delta_time that do not see the target keep coming
SpecCalm == Init /\ [][NextCalm]_vars /\ WF_vars(GsmUpdateUnseen)

\* C36: if from some update on no update sees the target, while updates with a
\* positive delta_time continue, the guard is eventually in Patrol with
\* detection 0 and stays so.
C36_AlwaysCalmsDown ==
    <>[](~last.can_see_player) => <>[]Calm

\* a search that ran its full time without sight has ended in Patrol with
\* detection 0
C36_Witness ==
    /\ last.called /\ last.state = SEARCHING
    /\ ~last.can_see_player
    /\ Calm
    /\ unseen_time >= lost_sight_delay + search_duration

\* ------------------------------------------------------------ the guard tick by tick

NextTicks ==
    \/ EnemyUpdateAiCounted
    \/ PlayerMove
    \/ PlayerDie
    \/ EnemyDie

\* the guard of the corridor, with the record of its ticks kept
SpecTicks == InitCorridor /\ [][NextTicks]_vars

\* a step that leaves the player and the guard's life as they are: under
\* SpecTicks, a tick of update_ai
CountedTick ==
    player' = player /\ enemy'.alive = enemy.alive

\* C37: update_ai returns a bullet only on a tick on which the guard sees the
\* player, only when it saw the player on each of the ENEMY_SHOOT_DELAY ticks
\* before, and only ENEMY_SHOOT_COOLDOWN ticks or more after its last bullet;
\* a dead guard returns no bullet and stays as it is.
C37_ShootingDiscipline ==
    [][CountedTick =>
          /\ bullet' # None =>
                 /\ enemy.alive
                 /\ enemy'.can_see_player
                 /\ ticks.seen = ENEMY_SHOOT_DELAY
                 /\ ticks.since_shot = -1 \/ ticks.since_shot + 1 >= ENEMY_SHOOT_COOLDOWN
          /\ ~enemy'.can_see_player => enemy'.shoot_delay_timer = 0
          /\ ~enemy.alive => enemy' = enemy /\ bullet' = None]_vars

\* the guard has seen the player for the whole delay, fired
\* ENEMY_SHOOT_COOLDOWN - 1 ticks ago and is about to fire again
C37_Witness ==
    /\ enemy.alive /\ player.alive
    /\ enemy.can_see_player
    /\ ticks.seen = ENEMY_SHOOT_DELAY
    /\ ticks.since_shot = ENEMY_SHOOT_COOLDOWN - 1
    /\ enemy.shoot_cooldown = 1
    /\ bullet = None

\* the guard has just fired
GuardFired ==
    /\ called = "update_ai"
    /\ bullet # None
    /\ ticks.since_shot = 0
    /\ enemy.can_see_player

\* a dead guard was updated
DeadGuardUpdated ==
    /\ called = "update_ai"
    /\ ~enemy.alive
    /\ bullet = None

\* the guard stands within 10 pixels of the position where it last saw the player
AtLastKnownPosition(e) ==
    /\ e.last_known_player_pos # None
    /\ get_distance_squared(e.center_x, e.center_y,
                            e.last_known_player_pos[1], e.last_known_player_pos[2])
           < (10 * 2) * (10 * 2)

\* C38: on every tick of update_ai of a living guard the mode is "chase" exactly
\* when the player is visible on that tick, and such a tick sets alert_timer to
\* alert_duration; a tick without sight is in mode "alert" when alert_timer was
\* positive and in mode "patrol" otherwise, so "alert" lasts at most
\* alert_duration consecutive ticks without sight, each of which lowers
\* alert_timer by one or ends the alert by clearing last_known_player_pos and
\* alert_timer, and "patrol" follows until the player is seen; an alert tick
\* that starts within 10 pixels of the last known position clears both.
C38_ControllerMode ==
    [][CountedTick /\ enemy.alive =>
          /\ enemy'.state = "chase" <=> enemy'.can_see_player
          /\ enemy'.can_see_player => enemy'.alert_timer = alert_duration
          /\ ~enemy'.can_see_player =>
                 /\ enemy'.state = IF enemy.alert_timer > 0 THEN "alert" ELSE "patrol"
                 /\ enemy'.state = "patrol" => enemy'.alert_timer = 0
                 /\ enemy.state = "patrol" => enemy'.state = "patrol"
          /\ enemy'.state = "alert" =>
                 /\ ticks'.unseen \in 1..alert_duration
                 /\ enemy.alert_timer = alert_duration - ticks.unseen
                 /\ \/ enemy'.alert_timer = enemy.alert_timer - 1
                    \/ /\ enemy'.alert_timer = 0
                       /\ enemy'.last_known_player_pos = None
                 /\ AtLastKnownPosition(enemy) =>
                        /\ enemy'.last_known_player_pos = None
                        /\ enemy'.alert_timer = 0]_vars

\* a living guard that lost sight of the player reached the last known position
\* before its alert ran out: the alert was ended early
C38_Witness ==
    /\ called = "update_ai"
    /\ enemy.alive
    /\ enemy.state = "alert"
    /\ ticks.unseen \in 2..(alert_duration - 1)
    /\ enemy.alert_timer = 0
    /\ enemy.last_known_player_pos = None

\* an alert that lasted its full alert_duration ticks
AlertRanOut ==
    /\ enemy.alive
    /\ enemy.state = "alert"
    /\ ticks.unseen = alert_duration
    /\ enemy.alert_timer = 0
    /\ enemy.last_known_player_pos # None

\* the guard is back on patrol after an alert
PatrolAfterAlert ==
    /\ enemy.alive
    /\ enemy.state = "patrol"
    /\ ticks.unseen = alert_duration + 1

\* a route of permitted moves leads from the walkable start tile to the tile
\* the search heads for
RouteExists ==
    /\ Walkable(StartCell)
    /\ Target # None
    /\ Target \in Flood({StartCell}, {StartCell})

\* C31: find_path is complete: when the start tile is walkable and permitted
\* moves (cardinal steps between walkable tiles of the grid, diagonal steps
\* that obey the corner rule) lead from it to the goal tile, or to the tile
\* that stands in for an unwalkable goal tile, find_path returns a path, not
\* None, and the path has at least one point.
C31_Complete ==
    called = "find_path" /\ RouteExists => returned # None /\ Len(returned) >= 1

\* a route exists only around a wall that lies across the straight way, and
\* find_path returned a path
C31_Witness ==
    /\ called = "find_path"
    /\ args = TwoWalls
    /\ RouteExists
    /\ returned # None
    /\ Len(returned) >= 2

\* a path was returned to the tile that stands in for an unwalkable goal tile
RouteToStandIn ==
    /\ called = "find_path"
    /\ RouteExists
    /\ ~Walkable(GoalCell)
    /\ Target # StartCell
    /\ returned # None

\* the search has not returned
Searching == loop # None /\ loop.pc = "while"

\* g_scores holds a cost, a natural number, for tiles of the grid and for the
\* start tile only
CostsBounded ==
    /\ DOMAIN loop.g_scores \subseteq GridCells \cup {StartCell}
    /\ \A c \in DOMAIN loop.g_scores : loop.g_scores[c] \in Nat

\* the round from before to after made the search smaller: no tile lost its
\* cost and no cost rose, and a tile got a cost or a lower cost, or else
\* open_set lost a node
RoundShrinks(before, after) ==
    /\ DOMAIN before.g_scores \subseteq DOMAIN after.g_scores
    /\ \A c \in DOMAIN before.g_scores : after.g_scores[c] <= before.g_scores[c]
    /\ \/ after.g_scores # before.g_scores
       \/ Len(after.open_set) < Len(before.open_set)

\* C32: every find_path call terminates on a finite grid: the costs in
\* g_scores are natural numbers for the finitely many tiles of the grid, and
\* every round of the while loop that does not return lowers or adds a cost
\* without raising any, or leaves the costs and removes a node from open_set,
\* also when it pops a node of a closed tile again; so only finitely many
\* rounds can follow each other, and when find_path has returned the loop had
\* popped the node of the goal tile or found open_set empty (or a check of
\* the tiles failed before the loop).
C32_Terminates ==
    /\ [](Searching => CostsBounded)
    /\ [](loop # None /\ loop.pc = "return" =>
              \/ loop.found # None /\ <<loop.found.x, loop.found.y>> = loop.goal_grid
              \/ loop.found = None /\ loop.open_set = <<>>)
    /\ [][Searching => loop'.pc = "return" \/ RoundShrinks(loop, loop')]_vars

\* a search that popped a node of a tile already closed has returned a path
C32_Witness ==
    /\ loop # None
    /\ loop.pc = "return"
    /\ loop.repopped
    /\ loop.found # None
    /\ returned # None

\* a search that ran its loop until open_set was empty has returned None
SearchExhausted ==
    /\ loop # None
    /\ loop.pc = "return"
    /\ loop.closed_set # {}
    /\ loop.open_set = <<>>
    /\ loop.found = None
    /\ returned = None

\* run in rounds, find_path returns what it returns run in one piece
RoundsGiveTheSame ==
    loop # None /\ loop.pc = "return" =>
        returned = find_path(args.start[1], args.start[2], args.goal[1], args.goal[2],
                             args.obstacles, TILE_SIZE,
                             args.grid_width, args.grid_height, GUARD_SIZE, None)

==========================================================================
